---- MODULE Spec2Model ----
(***************************************************************************)
(* Swing analysis (batch and live) and trade simulator of Kraken_Crypto.   *)
(*                                                                         *)
(* Prices are integers (price units), money is integer cents, timestamps   *)
(* are integer ticks with cfg.tph ticks per hour.  A null (None / NaN)     *)
(* text value is the string "None"; a nullable number is the empty tuple   *)
(* <<>> when null and the 1-tuple <<v>> otherwise.                         *)
(***************************************************************************)
EXTENDS Integers, Sequences, FiniteSets, TLC

VARIABLES
    cfg,           \* the variables.json / parameters.json values of the run
    fetch,         \* batch: rows of the fetch table for FetchRunID, by DateTime
    analysis,      \* batch: outcome of the analysis run over fetch
    live,          \* live: rows of the live data table, by DateTime
    store,         \* live: rows of the live analysis table, by DateTime
    lpd,           \* live: last_processed_datetime (0 is None)
    upsert,        \* live: what the last insert_analysis_results returned
    source,        \* backtest: annotated rows of one (Symbol, Timeframe) group
    bt,            \* backtest: the loop variables of backtest_group
    ledger,        \* backtest: the rows of the group processed so far
    runner         \* batch runner: the log table and the position of run_batch

vars == <<cfg, fetch, analysis, live, store, lpd, upsert, source, bt, ledger, runner>>

None == "None"

\* Bounds of the model.
MaxBars == 6
MaxLive == 4
MaxUpdated == 3
MaxSource == 4
MaxSwings == 5

Abs(x) == IF x < 0 THEN -x ELSE x
Max2(a, b) == IF a >= b THEN a ELSE b
Min2(a, b) == IF a <= b THEN a ELSE b

(***************************************************************************)
(* Bars.  A bar's DateTime is t; the feed appends bars in increasing t.    *)
(***************************************************************************)
Bar(t, h, l, c) == [t |-> t, high |-> h, low |-> l, close |-> c]

\* The shapes <<high, low, close>> a feed draws from, low <= close <= high:
\* flat, rising, falling, inside and outside bars all occur among them.
Shapes == { <<1, 1, 1>>, <<2, 1, 2>>, <<2, 2, 2>>, <<3, 2, 3>>, <<3, 3, 3>> }

\* high.iloc[a:b].max() and low.iloc[a:b].min() over rows a..b (1-based, a <= b)
RECURSIVE MaxHigh(_, _, _)
MaxHigh(s, a, b) ==
    IF a = b THEN s[a].high ELSE Max2(s[a].high, MaxHigh(s, a + 1, b))

RECURSIVE MinLow(_, _, _)
MinLow(s, a, b) ==
    IF a = b THEN s[a].low ELSE Min2(s[a].low, MinLow(s, a + 1, b))

(***************************************************************************)
(* Batch analysis: swing detection.                                        *)
(***************************************************************************)
\* A mutant of SpacingOk: the debounce test is lost.
SpacingOkNoDebounce(i, last, L) == TRUE

\* last_swing_*_idx is None (0) or at least LOOKBACK // 2 rows back
SpacingOk(i, last, L) == last = 0 \/ (i - last) >= (L \div 2)

\* a loop in which a row that passes the price test becomes the reference of
\* the spacing test even when the spacing test rejects it
RECURSIVE SwingScanRejectedIsReference(_, _, _, _, _, _)
SwingScanRejectedIsReference(s, L, i, lastH, lastL, acc) ==
    IF i > Len(s) THEN acc
    ELSE LET ph == i > L /\ L >= 1 /\ s[i].high >= MaxHigh(s, i - L, i - 1)
             pl == i > L /\ L >= 1 /\ s[i].low <= MinLow(s, i - L, i - 1)
         IN  SwingScanRejectedIsReference(s, L, i + 1,
                       IF ph THEN i ELSE lastH,
                       IF pl THEN i ELSE lastL,
                       Append(acc, [IsSwingHigh |-> ph /\ SpacingOk(i, lastH, L),
                                    IsSwingLow |-> pl /\ SpacingOk(i, lastL, L)]))

\* The loop of the swing detection: rows 1..LOOKBACK are never tested.
RECURSIVE SwingScan(_, _, _, _, _, _)
SwingScan(s, L, i, lastH, lastL, acc) ==
    IF i > Len(s) THEN acc
    ELSE LET hi == /\ i > L
                   /\ L >= 1
                   /\ s[i].high >= MaxHigh(s, i - L, i - 1)
                   /\ SpacingOk(i, lastH, L)
             lo == /\ i > L
                   /\ L >= 1
                   /\ s[i].low <= MinLow(s, i - L, i - 1)
                   /\ SpacingOk(i, lastL, L)
         IN  SwingScan(s, L, i + 1,
                       IF hi THEN i ELSE lastH,
                       IF lo THEN i ELSE lastL,
                       Append(acc, [IsSwingHigh |-> hi, IsSwingLow |-> lo]))

SwingDetection(s, L) == SwingScan(s, L, 1, 0, 0, <<>>)

(***************************************************************************)
(* Batch analysis: HH / LH / HL / LL labels.  c.MIN_SWING_PCT is in whole  *)
(* percent; prev = 0 stands for prev_high / prev_low being None.           *)
(***************************************************************************)
\* a high pass that gives HH to a high equal to the previous swing high
HighLabelNonStrict(current, prev, c) ==
    IF prev = 0 THEN None
    ELSE IF c.ENABLE_MIN_SWING /\ Abs(current - prev) * 100 < c.MIN_SWING_PCT * prev
         THEN None
         ELSE IF current >= prev THEN "HH" ELSE "LH"

\* pct_change = (current - prev_high) / prev_high * 100; HH if current > prev_high
HighLabel(current, prev, c) ==
    IF prev = 0 THEN None
    ELSE IF c.ENABLE_MIN_SWING /\ Abs(current - prev) * 100 < c.MIN_SWING_PCT * prev
         THEN None
         ELSE IF current > prev THEN "HH" ELSE "LH"

\* a low pass that writes the labels of the high pass
LowLabelCopiedFromHigh(current, prev, c) ==
    IF prev = 0 THEN None
    ELSE IF current > prev THEN "HH" ELSE "LH"

\* pct_change = (prev_low - current) / prev_low * 100; LL if current < prev_low
LowLabel(current, prev, c) ==
    IF prev = 0 THEN None
    ELSE IF c.ENABLE_MIN_SWING /\ Abs(prev - current) * 100 < c.MIN_SWING_PCT * prev
         THEN None
         ELSE IF current < prev THEN "LL" ELSE "HL"

\* a high pass whose reference is the last swing high that got a label
RECURSIVE LabelHighsLabelledReference(_, _, _, _, _, _)
LabelHighsLabelledReference(s, flags, c, i, prev, types) ==
    IF i > Len(s) THEN types
    ELSE IF flags[i].IsSwingHigh
         THEN LabelHighsLabelledReference(s, flags, c, i + 1,
                         IF prev = 0 \/ HighLabel(s[i].high, prev, c) # None
                         THEN s[i].high ELSE prev,
                         [types EXCEPT ![i] = HighLabel(s[i].high, prev, c)])
         ELSE LabelHighsLabelledReference(s, flags, c, i + 1, prev, types)

\* for idx in swing_highs.index: every swing high is (re)labelled
RECURSIVE LabelHighs(_, _, _, _, _, _)
LabelHighs(s, flags, c, i, prev, types) ==
    IF i > Len(s) THEN types
    ELSE IF flags[i].IsSwingHigh
         THEN LabelHighs(s, flags, c, i + 1, s[i].high,
                         [types EXCEPT ![i] = HighLabel(s[i].high, prev, c)])
         ELSE LabelHighs(s, flags, c, i + 1, prev, types)

\* for idx in swing_lows.index: every swing low is (re)labelled, whatever the
\* high pass wrote on that row
RECURSIVE LabelLows(_, _, _, _, _, _)
LabelLows(s, flags, c, i, prev, types) ==
    IF i > Len(s) THEN types
    ELSE IF flags[i].IsSwingLow
         THEN LabelLows(s, flags, c, i + 1, s[i].low,
                        [types EXCEPT ![i] = LowLabel(s[i].low, prev, c)])
         ELSE LabelLows(s, flags, c, i + 1, prev, types)

\* The SwingType column after both passes (the column exists only if some
\* row is a swing: see BatchAnalysis).
LabelSwings(s, flags, c) ==
    LabelLows(s, flags, c, 1, 0,
              LabelHighs(s, flags, c, 1, 0, [i \in 1..Len(s) |-> None]))

(***************************************************************************)
(* Slope: least squares of Close against hours since the window's first    *)
(* row, over the rows within TREND_LINE_RANGE hours, rounded to 8          *)
(* decimals.  A slope is <<>> (NaN) or <<round(slope * 10^8)>>.            *)
(***************************************************************************)
\* 8 digits of the fraction r / den by long division: <<digits, remainder>>
RECURSIVE Digits(_, _, _, _)
Digits(r, den, k, f) ==
    IF k = 0 THEN <<f, r>>
    ELSE Digits((r * 10) % den, den, k - 1, f * 10 + ((r * 10) \div den))

\* round(num / den, 8) * 10^8 for den > 0: round half to even
Round8(num, den) ==
    LET a   == Abs(num)
        d   == Digits(a % den, den, 8, 0)
        v   == (a \div den) * 100000000 + d[1]
        up  == 2 * d[2] > den \/ (2 * d[2] = den /\ v % 2 = 1)
        w   == IF up THEN v + 1 ELSE v
    IN  IF num < 0 THEN -w ELSE w

\* the first row of past_data: the earliest row with DateTime >= start_time
RECURSIVE WindowFirst(_, _, _)
WindowFirst(s, i, start) ==
    IF i > 1 /\ s[i - 1].t >= start THEN WindowFirst(s, i - 1, start) ELSE i

\* <<sum x, sum y, sum x*y, sum x*x>> over rows f..i, x in ticks since row f
RECURSIVE Sums(_, _, _, _)
Sums(s, f, k, i) ==
    IF k > i THEN <<0, 0, 0, 0>>
    ELSE LET x == s[k].t - s[f].t
             y == s[k].close
             r == Sums(s, f, k + 1, i)
         IN  <<r[1] + x, r[2] + y, r[3] + x * y, r[4] + x * x>>

\* the slope loop without the past_span test
SlopeAtNoSpanTest(s, i, c) ==
    LET range == c.TREND_LINE_RANGE * c.tph
        f     == WindowFirst(s, i, s[i].t - range)
        n     == i - f + 1
        m     == Sums(s, f, f, i)
    IN  IF n < 2 THEN <<>>
        ELSE <<Round8(c.tph * (n * m[3] - m[1] * m[2]), n * m[4] - m[1] * m[1])>>

\* one turn of the slope loop for row i
SlopeAt(s, i, c) ==
    LET range == c.TREND_LINE_RANGE * c.tph
        f     == WindowFirst(s, i, s[i].t - range)
        n     == i - f + 1
        m     == Sums(s, f, f, i)
    IN  IF n < 2 THEN <<>>
        ELSE IF s[i].t - s[f].t < range THEN <<>>
        ELSE <<Round8(c.tph * (n * m[3] - m[1] * m[2]), n * m[4] - m[1] * m[1])>>

\* Trend from Slope: comparisons with NaN are false, so NaN stays Sideways
TrendOf(slope) ==
    IF slope # <<>> /\ slope[1] > 0 THEN "Upward"
    ELSE IF slope # <<>> /\ slope[1] < 0 THEN "Downward"
    ELSE "Sideways"

(***************************************************************************)
(* Signal detection over the typed swings.                                 *)
(***************************************************************************)
EntryStr(c) == IF c.ENTRY = 1 THEN "Ordered" ELSE IF c.ENTRY = 2 THEN "Mixed" ELSE None

\* a swing list that keeps the swings without SwingType
RECURSIVE SwingIndicesUntypedToo(_, _, _)
SwingIndicesUntypedToo(flags, types, i) ==
    IF i > Len(flags) THEN <<>>
    ELSE IF flags[i].IsSwingHigh \/ flags[i].IsSwingLow
         THEN <<i>> \o SwingIndicesUntypedToo(flags, types, i + 1)
         ELSE SwingIndicesUntypedToo(flags, types, i + 1)

\* swings.index: the rows that are a swing and have a SwingType, in order
RECURSIVE SwingIndices(_, _, _)
SwingIndices(flags, types, i) ==
    IF i > Len(flags) THEN <<>>
    ELSE IF (flags[i].IsSwingHigh \/ flags[i].IsSwingLow) /\ types[i] # None
         THEN <<i>> \o SwingIndices(flags, types, i + 1)
         ELSE SwingIndices(flags, types, i + 1)

\* a bullish test that wants the confirming HL in Mixed mode too
BuyMatchConfirmsAlways(ptypes, pishigh, entry_str, PL) ==
    /\ \A k \in 1..PL : ptypes[k] \in {"HL", "HH"}
    /\ ptypes[PL] = "HL"
    /\ entry_str = "Ordered" =>
          /\ ptypes = [k \in 1..PL |-> IF (k - 1) % 2 = 0 THEN "HL" ELSE "HH"]
          /\ pishigh = [k \in 1..PL |-> (k - 1) % 2 # 0]

\* a bullish test that compares the types and not the IsSwingHigh flags
BuyMatchTypesOnly(ptypes, pishigh, entry_str, PL) ==
    /\ \A k \in 1..PL : ptypes[k] \in {"HL", "HH"}
    /\ entry_str = "Ordered" =>
          /\ ptypes = [k \in 1..PL |-> IF (k - 1) % 2 = 0 THEN "HL" ELSE "HH"]
          /\ ptypes[PL] = "HL"

\* the bullish test of one pattern: all types in up_types, the Ordered
\* sequence and flags, and the confirming last type
BuyMatch(ptypes, pishigh, entry_str, PL) ==
    /\ \A k \in 1..PL : ptypes[k] \in {"HL", "HH"}
    /\ entry_str = "Ordered" =>
          /\ ptypes = [k \in 1..PL |-> IF (k - 1) % 2 = 0 THEN "HL" ELSE "HH"]
          /\ pishigh = [k \in 1..PL |-> (k - 1) % 2 # 0]
          /\ ptypes[PL] = "HL"

\* the bearish test of one pattern
SellMatch(ptypes, pishigh, entry_str, PL) ==
    /\ \A k \in 1..PL : ptypes[k] \in {"LH", "LL"}
    /\ entry_str = "Ordered" =>
          /\ ptypes = [k \in 1..PL |-> IF (k - 1) % 2 = 0 THEN "LH" ELSE "LL"]
          /\ pishigh = [k \in 1..PL |-> (k - 1) % 2 = 0]
          /\ ptypes[PL] = "LH"

\* the buy branch of one turn of the loop
BuyFires(c, lastBuy, endIdx, ptypes, pishigh) ==
    /\ c.TARGET_DIRECTION \in {1, 3}
    /\ lastBuy # endIdx
    /\ BuyMatch(ptypes, pishigh, EntryStr(c), 2 * c.ENTRY_COUNT + 1)

\* A mutant of SellFires: the sell branch is the buy branch with only the
\* column and the direction test changed.
SellFiresCopied(c, lastSell, endIdx, placed, ptypes, pishigh) ==
    /\ c.TARGET_DIRECTION \in {2, 3}
    /\ lastSell # endIdx
    /\ BuyMatch(ptypes, pishigh, EntryStr(c), 2 * c.ENTRY_COUNT + 1)

\* the sell branch of one turn of the loop: not when a buy was just placed
SellFires(c, lastSell, endIdx, placed, ptypes, pishigh) ==
    /\ c.TARGET_DIRECTION \in {2, 3}
    /\ lastSell # endIdx
    /\ ~placed
    /\ SellMatch(ptypes, pishigh, EntryStr(c), 2 * c.ENTRY_COUNT + 1)

\* for j in range(min_required_swings - 1, len(swing_indices)), j 1-based
RECURSIVE SignalLoop(_, _, _, _, _, _, _, _)
SignalLoop(flags, types, c, sw, j, lastBuy, lastSell, sig) ==
    IF j > Len(sw) THEN sig
    ELSE LET PL      == 2 * c.ENTRY_COUNT + 1
             endIdx  == sw[j]
             ptypes  == [k \in 1..PL |-> types[sw[j - PL + k]]]
             pishigh == [k \in 1..PL |-> flags[sw[j - PL + k]].IsSwingHigh]
             buy     == BuyFires(c, lastBuy, endIdx, ptypes, pishigh)
             sell    == SellFires(c, lastSell, endIdx, buy, ptypes, pishigh)
             sig1    == IF buy THEN [sig EXCEPT ![endIdx].BuySignal = 1] ELSE sig
             sig2    == IF sell THEN [sig1 EXCEPT ![endIdx].SellSignal = 1] ELSE sig1
         IN  SignalLoop(flags, types, c, sw, j + 1,
                        IF buy THEN endIdx ELSE lastBuy,
                        IF sell THEN endIdx ELSE lastSell, sig2)

\* BuySignal / SellSignal of every row, 0 unless a pattern ends on it
DetectSignals(flags, types, c) ==
    LET sw   == SwingIndices(flags, types, 1)
        zero == [i \in 1..Len(flags) |-> [BuySignal |-> 0, SellSignal |-> 0]]
    IN  IF EntryStr(c) # None /\ Len(sw) >= 3 /\ c.ENTRY_COUNT >= 0
        THEN SignalLoop(flags, types, c, sw, 2 * c.ENTRY_COUNT + 1, 0, 0, zero)
        ELSE zero

(***************************************************************************)
(* The batch analysis script as a whole, from the fetched rows to the      *)
(* inserted rows.                                                          *)
(***************************************************************************)
Row(b, f, ty, sl, sg) ==
    [t |-> b.t, high |-> b.high, low |-> b.low, close |-> b.close,
     IsSwingHigh |-> f.IsSwingHigh, IsSwingLow |-> f.IsSwingLow,
     SwingType |-> ty, Slope |-> sl, Trend |-> TrendOf(sl),
     BuySignal |-> sg.BuySignal, SellSignal |-> sg.SellSignal]

\* status "empty": df.empty, exit 0 with nothing written; "KeyError": no row
\* is a swing, so no pass created the SwingType column and the signal
\* detection's df['SwingType'] raises, nothing written; "ok": rows inserted.
BatchAnalysis(s, c) ==
    IF s = <<>> THEN [status |-> "empty", rows |-> <<>>]
    ELSE LET flags == SwingDetection(s, c.LOOKBACK)
         IN  IF \A i \in 1..Len(s) : ~flags[i].IsSwingHigh /\ ~flags[i].IsSwingLow
             THEN [status |-> "KeyError", rows |-> <<>>]
             ELSE LET types == LabelSwings(s, flags, c)
                      sig   == DetectSignals(flags, types, c)
                  IN  [status |-> "ok",
                       rows |-> [i \in 1..Len(s) |->
                                   Row(s[i], flags[i], types[i], SlopeAt(s, i, c), sig[i])]]

(***************************************************************************)
(* Configurations.  ENTRY 1 is Ordered, 2 is Mixed; TARGET_DIRECTION 1 is  *)
(* Long, 2 Short, 3 Both; percents are whole percents; STARTING_BALANCE is *)
(* in cents; gaps are the feed's steps between two DateTimes, in ticks.    *)
(***************************************************************************)
\* the Close values of the rows a backtest reads, in hundredths; close_scale
\* is the number of units of Close in one hundredth (Close is a FLOAT column)
Closes == {100, 200, 300}

BaseCfg ==
    [LOOKBACK |-> 1, MIN_SWING_PCT |-> 0, ENABLE_MIN_SWING |-> FALSE,
     ENTRY |-> 2, ENTRY_COUNT |-> 1, TARGET_DIRECTION |-> 3,
     TREND_LINE_RANGE |-> 2, tph |-> 1, gaps |-> {1}, shapes |-> Shapes,
     L_PT |-> 50, L_SL |-> 50, S_PT |-> 50, S_SL |-> 50,
     STARTING_BALANCE |-> 10000, LEVERAGE |-> 1, closes |-> Closes,
     history |-> 0, close_scale |-> 1]

\* every entry mode with every target direction, lookback 1; the four
\* shapes are enough for the Ordered patterns of both directions
SignalConfigs ==
    { [BaseCfg EXCEPT !.ENTRY = e, !.TARGET_DIRECTION = d,
                      !.shapes = Shapes \ { <<2, 2, 2>> }] : e \in {1, 2}, d \in {1, 2, 3} }

\* lookbacks whose debounce spacing LOOKBACK // 2 is 0, 1 and 2
SwingConfigs ==
    { [BaseCfg EXCEPT !.LOOKBACK = l] : l \in {1, 2, 4} }

NoAnalysis == [status |-> "none", rows |-> <<>>]
NoBt == [pc |-> "idle"]
\* no call of insert_analysis_results yet; fail is the row write that raised
NoUpsert == [rows |-> 0, new_rows |-> 0, fail |-> 0]

\* run_batch is not running
NoRunner == [pc |-> "off"]

Idle ==
    /\ fetch = <<>> /\ analysis = NoAnalysis
    /\ live = <<>> /\ store = <<>> /\ lpd = 0 /\ upsert = NoUpsert /\ runner = NoRunner
    /\ source = <<>> /\ bt = NoBt /\ ledger = <<>>

(***************************************************************************)
(* The batch run: the fetch stage has written the rows of FetchRunID, the  *)
(* analysis script then runs once over them.                               *)
(***************************************************************************)
NextT(s, gap) == IF s = <<>> THEN 1 ELSE s[Len(s)].t + gap

\* one more row of the fetch run
FetchBar ==
    /\ analysis.status = "none"
    /\ Len(fetch) < MaxBars
    /\ \E sh \in cfg.shapes, g \in cfg.gaps :
          fetch' = Append(fetch, Bar(NextT(fetch, g), sh[1], sh[2], sh[3]))
    /\ UNCHANGED <<cfg, analysis, live, store, lpd, source, bt, ledger, upsert, runner>>

\* the analysis script, from the load to the insert
RunAnalysis ==
    /\ analysis.status = "none"
    /\ analysis' = BatchAnalysis(fetch, cfg)
    /\ UNCHANGED <<cfg, fetch, live, store, lpd, source, bt, ledger, upsert, runner>>

NextBatch == FetchBar \/ RunAnalysis

InitSignals == cfg \in SignalConfigs /\ Idle
InitSwings == cfg \in SwingConfigs /\ Idle

SpecSignals == InitSignals /\ [][NextBatch]_vars
SpecSwings == InitSwings /\ [][NextBatch]_vars

(***************************************************************************)
(* Live analysis: the helper functions of the polling script.  A window    *)
(* row carries the bar and the IsSwingHigh, IsSwingLow and SwingType it    *)
(* was loaded with.                                                        *)
(***************************************************************************)
\* the last row of the window already marked (0 is None)
RECURSIVE LastMarkedHigh(_, _)
LastMarkedHigh(w, i) ==
    IF i = 0 THEN 0 ELSE IF w[i].IsSwingHigh THEN i ELSE LastMarkedHigh(w, i - 1)

RECURSIVE LastMarkedLow(_, _)
LastMarkedLow(w, i) ==
    IF i = 0 THEN 0 ELSE IF w[i].IsSwingLow THEN i ELSE LastMarkedLow(w, i - 1)

\* the second loop of calculate_swing_points: only rows not yet marked are
\* tested, against the same price and spacing tests as in the batch script
RECURSIVE LiveSwingScan(_, _, _, _, _, _)
LiveSwingScan(w, L, i, lastH, lastL, acc) ==
    IF i > Len(w) THEN acc
    ELSE LET hi == /\ i > L
                   /\ L >= 1
                   /\ ~w[i].IsSwingHigh
                   /\ w[i].high >= MaxHigh(w, i - L, i - 1)
                   /\ SpacingOk(i, lastH, L)
             lo == /\ i > L
                   /\ L >= 1
                   /\ ~w[i].IsSwingLow
                   /\ w[i].low <= MinLow(w, i - L, i - 1)
                   /\ SpacingOk(i, lastL, L)
         IN  LiveSwingScan(w, L, i + 1,
                           IF hi THEN i ELSE lastH,
                           IF lo THEN i ELSE lastL,
                           Append(acc, [IsSwingHigh |-> w[i].IsSwingHigh \/ hi,
                                        IsSwingLow |-> w[i].IsSwingLow \/ lo]))

calculate_swing_points(w, L) ==
    LiveSwingScan(w, L, 1, LastMarkedHigh(w, Len(w)), LastMarkedLow(w, Len(w)), <<>>)

\* the swing-high pass of assign_swing_types: a row is labelled only if its
\* SwingType is null
RECURSIVE AssignHighs(_, _, _, _, _, _)
AssignHighs(w, flags, c, i, prev, types) ==
    IF i > Len(w) THEN types
    ELSE IF flags[i].IsSwingHigh
         THEN AssignHighs(w, flags, c, i + 1, w[i].high,
                          IF types[i] = None
                          THEN [types EXCEPT ![i] = HighLabel(w[i].high, prev, c)]
                          ELSE types)
         ELSE AssignHighs(w, flags, c, i + 1, prev, types)

\* the swing-low pass of assign_swing_types
RECURSIVE AssignLows(_, _, _, _, _, _)
AssignLows(w, flags, c, i, prev, types) ==
    IF i > Len(w) THEN types
    ELSE IF flags[i].IsSwingLow
         THEN AssignLows(w, flags, c, i + 1, w[i].low,
                         IF types[i] = None
                         THEN [types EXCEPT ![i] = LowLabel(w[i].low, prev, c)]
                         ELSE types)
         ELSE AssignLows(w, flags, c, i + 1, prev, types)

assign_swing_types(w, flags, c) ==
    AssignLows(w, flags, c, 1, 0,
               AssignHighs(w, flags, c, 1, 0, [i \in 1..Len(w) |-> w[i].SwingType]))

\* swings, labels, slope, trend and signals of every row of the window
process_new_data(w, c) ==
    LET flags == calculate_swing_points(w, c.LOOKBACK)
        types == assign_swing_types(w, flags, c)
        sig   == DetectSignals(flags, types, c)
    IN  [i \in 1..Len(w) |-> Row(w[i], flags[i], types[i], SlopeAt(w, i, c), sig[i])]

(***************************************************************************)
(* Live analysis: the upsert.                                              *)
(***************************************************************************)
HasRow(st, t) == \E i \in 1..Len(st) : st[i].t = t
RowAt(st, t) == st[CHOOSE i \in 1..Len(st) : st[i].t = t]

\* MERGE ... ON target.DateTime = source.DateTime: update the matched row or
\* insert, the table read back in DateTime order
MergeRow(st, r) ==
    IF HasRow(st, r.t)
    THEN [i \in 1..Len(st) |-> IF st[i].t = r.t THEN r ELSE st[i]]
    ELSE LET before == SelectSeq(st, LAMBDA x : x.t < r.t)
             after  == SelectSeq(st, LAMBDA x : x.t > r.t)
         IN  before \o <<r>> \o after

\* UPDATE ... SET Open, High, Low, Close, Volume WHERE DateTime = ?
UpdateOhlcv(st, r) ==
    [i \in 1..Len(st) |->
        IF st[i].t = r.t
        THEN [st[i] EXCEPT !.high = r.high, !.low = r.low, !.close = r.close]
        ELSE st[i]]

\* A mutant of LatestSwingType: the recomputed label is written.
LatestSwingTypeRecomputed(hasOld, old, r) == r.SwingType

\* SwingType of the latest row: the stored one once it is set
LatestSwingType(hasOld, old, r) ==
    IF hasOld /\ old.SwingType # None THEN old.SwingType ELSE r.SwingType

\* A mutant of LatestRow: the recomputed flags and signals are written.
LatestRowRecomputed(st, r) ==
    LET hasOld == HasRow(st, r.t)
        old    == IF hasOld THEN RowAt(st, r.t) ELSE r
    IN  [r EXCEPT !.SwingType = LatestSwingType(hasOld, old, r)]

\* the row written for the latest row that is not new: flags and signals
\* once 1 stay 1, SwingType is preserved, Slope and Trend can change
LatestRow(st, r) ==
    LET hasOld == HasRow(st, r.t)
        old    == IF hasOld THEN RowAt(st, r.t) ELSE r
    IN  [r EXCEPT !.IsSwingHigh = (hasOld /\ old.IsSwingHigh) \/ r.IsSwingHigh,
                  !.IsSwingLow  = (hasOld /\ old.IsSwingLow) \/ r.IsSwingLow,
                  !.BuySignal   = IF (hasOld /\ old.BuySignal = 1) \/ r.BuySignal = 1
                                  THEN 1 ELSE 0,
                  !.SellSignal  = IF (hasOld /\ old.SellSignal = 1) \/ r.SellSignal = 1
                                  THEN 1 ELSE 0,
                  !.SwingType   = LatestSwingType(hasOld, old, r)]

\* the loop of insert_analysis_results over df_results from row k on; old is
\* the table as read before the loop (existing_data)
RECURSIVE UpsertLoop(_, _, _, _, _, _)
UpsertLoop(st, old, rs, k, last, res) ==
    IF k > Len(rs) THEN [res EXCEPT !.store = st]
    ELSE LET r         == rs[k]
             is_new    == last = 0 \/ r.t > last
             is_latest == r.t = rs[Len(rs)].t
         IN  IF is_new
             THEN UpsertLoop(MergeRow(st, r), old, rs, k + 1, last,
                             [res EXCEPT !.rows = @ + 1, !.new_rows = @ + 1])
             ELSE IF is_latest
             THEN UpsertLoop(MergeRow(st, LatestRow(old, r)), old, rs, k + 1, last,
                             [res EXCEPT !.rows = @ + 1])
             ELSE UpsertLoop(UpdateOhlcv(st, r), old, rs, k + 1, last,
                             [res EXCEPT !.rows = @ + 1])

\* the committed table with the counts the function returns
insert_analysis_results(st, rs, last) ==
    UpsertLoop(st, st, rs, 1, last, [store |-> st, rows |-> 0, new_rows |-> 0])

(***************************************************************************)
(* Properties of the batch analysis.                                       *)
(***************************************************************************)
Rows == analysis.rows

\* the annotations the claims compare
Marks(r) ==
    <<r.IsSwingHigh, r.IsSwingLow, r.SwingType, r.Slope, r.Trend, r.BuySignal, r.SellSignal>>

\* C3: a run over any prefix of the series gives every row of the prefix the
\* swing flags, SwingType, Slope, Trend and signals that the run over the
\* full series gives it.
C3_NoLookahead ==
    analysis.status = "ok" =>
        \A T \in 1..Len(fetch) :
            LET p == BatchAnalysis(SubSeq(fetch, 1, T), cfg)
            IN  /\ p.status = "ok"
                /\ \A i \in 1..T : Marks(p.rows[i]) = Marks(Rows[i])

\* The prefixes on which the script gets as far as its insert agree with
\* the full run (the scan itself reads no later row).
NoLookaheadWhereInserted ==
    analysis.status = "ok" =>
        \A T \in 1..Len(fetch) :
            LET p == BatchAnalysis(SubSeq(fetch, 1, T), cfg)
            IN  p.status = "ok" => \A i \in 1..T : Marks(p.rows[i]) = Marks(Rows[i])

\* C9: two rows marked swing high are at least LOOKBACK // 2 rows apart, and
\* so are two rows marked swing low.
C9_SwingDebounce ==
    analysis.status = "ok" =>
        \A i, j \in 1..Len(Rows) :
            i < j =>
                /\ (Rows[i].IsSwingHigh /\ Rows[j].IsSwingHigh) => j - i >= cfg.LOOKBACK \div 2
                /\ (Rows[i].IsSwingLow /\ Rows[j].IsSwingLow) => j - i >= cfg.LOOKBACK \div 2

\* a row passes the price test one row after a swing high, with spacing 2,
\* and is not marked
C9_Witness ==
    /\ analysis.status = "ok"
    /\ cfg.LOOKBACK = 4
    /\ \E j \in 6..Len(Rows) :
          /\ Rows[j - 1].IsSwingHigh
          /\ fetch[j].high >= MaxHigh(fetch, j - 4, j - 1)
          /\ ~Rows[j].IsSwingHigh

\* C10: no row has both BuySignal and SellSignal, in every entry mode and
\* target direction.
C10_SignalsExclusive ==
    analysis.status = "ok" =>
        \A i \in 1..Len(Rows) : ~(Rows[i].BuySignal = 1 /\ Rows[i].SellSignal = 1)

\* both directions are permitted and a pattern fired
C10_Witness ==
    /\ analysis.status = "ok"
    /\ cfg.TARGET_DIRECTION = 3
    /\ \E i \in 1..Len(Rows) : Rows[i].BuySignal = 1 \/ Rows[i].SellSignal = 1

(***************************************************************************)
(* Live analysis: one turn of the polling loop.                            *)
(***************************************************************************)
\* SELECT TOP max(LOOKBACK * 3, TREND_LINE_RANGE + 10)
HistoricalTop(c) == Max2(c.LOOKBACK * 3, c.TREND_LINE_RANGE + 10)

\* the newest rows of the analysis table before last_processed_datetime, in
\* chronological order
Historical(st, last, c) ==
    LET older == SelectSeq(st, LAMBDA r : r.t < last)
        n     == Len(older)
    IN  IF n <= HistoricalTop(c) THEN older
        ELSE SubSeq(older, n - HistoricalTop(c) + 1, n)

\* the live rows from the fifth-last row at or before last_processed_datetime
\* on (no row when none is at or before it: MIN over nothing is NULL)
LiveRows(lv, last) ==
    LET upto == SelectSeq(lv, LAMBDA b : b.t <= last)
        n    == Len(upto)
    IN  IF n = 0 THEN <<>>
        ELSE SelectSeq(lv, LAMBDA b : b.t >= upto[Max2(1, n - 4)].t)

RECURSIVE SortedTs(_)
SortedTs(S) ==
    IF S = {} THEN <<>>
    ELSE LET m == CHOOSE x \in S : \A y \in S : x <= y
         IN  <<m>> \o SortedTs(S \ {m})

Fresh(b) ==
    [t |-> b.t, high |-> b.high, low |-> b.low, close |-> b.close,
     IsSwingHigh |-> FALSE, IsSwingLow |-> FALSE, SwingType |-> None]

Loaded(r) ==
    [t |-> r.t, high |-> r.high, low |-> r.low, close |-> r.close,
     IsSwingHigh |-> r.IsSwingHigh, IsSwingLow |-> r.IsSwingLow, SwingType |-> r.SwingType]

\* df_new: the historical rows with the live OHLCV written over them, the
\* live rows not among them added with no flag and no SwingType, sorted
Combine(hist, lv) ==
    LET ts == SortedTs({hist[i].t : i \in 1..Len(hist)} \cup {lv[i].t : i \in 1..Len(lv)})
    IN  [k \in 1..Len(ts) |->
            IF HasRow(hist, ts[k])
            THEN IF HasRow(lv, ts[k])
                 THEN [Loaded(RowAt(hist, ts[k])) EXCEPT !.high = RowAt(lv, ts[k]).high,
                                                         !.low = RowAt(lv, ts[k]).low,
                                                         !.close = RowAt(lv, ts[k]).close]
                 ELSE Loaded(RowAt(hist, ts[k]))
            ELSE Fresh(RowAt(lv, ts[k]))]

\* the window of a poll: everything on the first run
Window(lv, st, last, c) ==
    IF last # 0
    THEN Combine(Historical(st, last, c), LiveRows(lv, last))
    ELSE [i \in 1..Len(lv) |-> Fresh(lv[i])]

\* df_to_insert: from the fourth row before last_processed_datetime on
ToInsert(processed, last) ==
    IF last = 0 THEN processed
    ELSE LET n      == Len(processed)
             at     == IF HasRow(processed, last)
                       THEN CHOOSE i \in 1..n : processed[i].t = last
                       ELSE 0
             cutoff == IF at # 0 THEN processed[Max2(1, at - 4)].t ELSE processed[1].t
         IN  SelectSeq(processed, LAMBDA r : r.t >= cutoff)

\* A mutant of AdvanceLpd: the counts of the upsert are not looked at.
AdvanceLpdUnguarded(res, rs, last) == rs[Len(rs)].t

\* last_processed_datetime after the upsert: the last row of df_to_insert
\* if rows were written and some of them were new
AdvanceLpd(res, rs, last) ==
    IF res.rows > 0 /\ res.new_rows > 0 THEN rs[Len(rs)].t ELSE last

\* One turn of the loop: query, process, upsert, advance.
LivePoll ==
    /\ LET w == Window(live, store, lpd, cfg)
       IN  IF w = <<>>
           THEN UNCHANGED <<store, lpd>>
           ELSE LET rs  == ToInsert(process_new_data(w, cfg), lpd)
                    res == insert_analysis_results(store, rs, lpd)
                IN  /\ store' = res.store
                    /\ lpd' = AdvanceLpd(res, rs, lpd)
    /\ UNCHANGED <<cfg, fetch, analysis, live, source, bt, ledger, upsert, runner>>

\* The feed inserts the next candle (at most max of them).
LiveAppend(max) ==
    /\ Len(live) < max
    /\ \E sh \in cfg.shapes, g \in cfg.gaps :
          live' = Append(live, Bar(NextT(live, g), sh[1], sh[2], sh[3]))
    /\ UNCHANGED <<cfg, fetch, analysis, store, lpd, source, bt, ledger, upsert, runner>>

\* The feed inserts the next candle once the analysis has caught up, so
\* that every poll finds at most one new candle.
LiveFeedOne ==
    /\ IF live = <<>> THEN TRUE ELSE lpd = live[Len(live)].t
    /\ LiveAppend(MaxLive)

\* The feed inserts the next candle whether or not the analysis has polled.
LiveFeed == LiveAppend(MaxUpdated)

\* The feed updates the candle of the current interval.
LiveRevise ==
    /\ live # <<>>
    /\ \E sh \in cfg.shapes :
          /\ <<live[Len(live)].high, live[Len(live)].low, live[Len(live)].close>> # sh
          /\ live' = [live EXCEPT ![Len(live)] = Bar(live[Len(live)].t, sh[1], sh[2], sh[3])]
    /\ UNCHANGED <<cfg, fetch, analysis, store, lpd, source, bt, ledger, upsert, runner>>

LiveConfigs == { [BaseCfg EXCEPT !.LOOKBACK = l] : l \in {1, 2} }

\* three shapes for the feed whose candles are updated
ReviseConfigs ==
    { [BaseCfg EXCEPT !.LOOKBACK = l,
                      !.shapes = { <<1, 1, 1>>, <<2, 1, 2>>, <<3, 2, 3>> }] : l \in {1, 2} }

InitLiveOne == cfg \in LiveConfigs /\ Idle
InitLive == cfg \in ReviseConfigs /\ Idle

NextLiveOne == LiveFeedOne \/ LivePoll
NextLive == LiveFeed \/ LiveRevise \/ LivePoll

SpecLiveOne == InitLiveOne /\ [][NextLiveOne]_vars
SpecLive == InitLive /\ [][NextLive]_vars

(***************************************************************************)
(* Properties of the live analysis.                                        *)
(***************************************************************************)
\* the stored annotations C1 compares
StoredMarks(r) ==
    <<r.IsSwingHigh, r.IsSwingLow, r.SwingType, r.Slope, r.BuySignal, r.SellSignal>>

\* C1: with the bars fed one at a time, every stored row has the
\* IsSwingHigh, IsSwingLow, SwingType, Slope, BuySignal and SellSignal that
\* one batch run over the full history gives that bar.
C1_LiveEqualsBatch ==
    LET b == BatchAnalysis(live, cfg)
    IN  (b.status = "ok" /\ live # <<>> /\ lpd = live[Len(live)].t) =>
            /\ Len(store) = Len(live)
            /\ \A i \in 1..Len(store) : StoredMarks(store[i]) = StoredMarks(b.rows[i])

NaN == <<>>

RECURSIVE GCD(_, _)
GCD(a, b) == IF b = 0 THEN a ELSE GCD(b, a % b)

\* round(num / den) to an integer, den > 0
RoundHalfEven(num, den) ==
    LET a  == Abs(num)
        q  == a \div den
        r  == a % den
        up == 2 * r > den \/ (2 * r = den /\ q % 2 = 1)
        w  == IF up THEN q + 1 ELSE q
    IN  IF num < 0 THEN -w ELSE w

\* a float division by 0.0 gives inf, -inf or, for 0.0 / 0.0, nan
NonFinite(q) == IF q.num > 0 THEN "inf" ELSE IF q.num < 0 THEN "-inf" ELSE "nan"

\* round(quantity, 6) as <<whole, millionths>>, quantity = q.num / q.den;
\* round() leaves a quantity that is not finite as it is
Round6(q) ==
    IF q.den = 0 THEN <<NonFinite(q)>>
    ELSE
    LET a    == Abs(q.num)
        d    == Digits(a % q.den, q.den, 6, 0)
        up   == 2 * d[2] > q.den \/ (2 * d[2] = q.den /\ d[1] % 2 = 1)
        f    == IF up THEN d[1] + 1 ELSE d[1]
        w    == (a \div q.den) + (f \div 1000000)
        sign == IF q.num < 0 THEN -1 ELSE 1
    IN  <<sign * w, sign * (f % 1000000)>>

\* the rows a backtest reads: Close with the BuySignal and SellSignal of the
\* analysis table
SignalPairs == { <<0, 0>>, <<1, 0>>, <<0, 1>>, <<1, 1>> }
SourceRow(t, close, sig) == [t |-> t, close |-> close, BuySignal |-> sig[1], SellSignal |-> sig[2]]

\* the locals of backtest_group before its loop
StartOfGroup(c) ==
    [pc |-> "running", in_trade |-> FALSE, current_balance |-> c.STARTING_BALANCE,
     entry_price |-> 0, quantity |-> [num |-> 0, den |-> 1], entry_cost |-> 0,
     pt_price |-> NaN, sl_price |-> NaN, trade_direction |-> None,
     prev_entry_exit |-> NaN, prev_in_trade |-> 0]

\* the new columns of a row, all NaN, InTrade 0
BlankRow(row) ==
    [t |-> row.t, close |-> row.close, BuySignal |-> row.BuySignal, SellSignal |-> row.SellSignal,
     L_PTPrice |-> NaN, L_SLPrice |-> NaN, S_PTPrice |-> NaN, S_SLPrice |-> NaN,
     EntryExit |-> NaN, LongShort |-> None, StartingBalance |-> NaN, Leverage |-> NaN,
     Quantity |-> NaN, EntryPrice |-> NaN, EntryCost |-> NaN, ExitPrice |-> NaN,
     ExitCost |-> NaN, ProfitLoss |-> NaN, EndingBalance |-> NaN, InTrade |-> 0]

\* round(price, 3) in thousandths, of a price kept in ten-thousandths of
\* the unit of Close
Round3(p, c) == RoundHalfEven(p, 10 * c.close_scale)

\* round(close, 3) and round(entry_price, 2), both in thousandths
RoundClose3(close, c) == RoundHalfEven(close * 10, c.close_scale)
RoundClose2(close, c) == RoundHalfEven(close, c.close_scale) * 10

Long(b) == b.trade_direction = "long"
Short(b) == b.trade_direction = "short"

\* the stamps of a bar that starts in a trade
CarryForward(b, out, c) ==
    [out EXCEPT !.InTrade = 1,
                !.LongShort = IF Long(b) THEN "Long" ELSE "Short",
                !.StartingBalance = <<b.current_balance>>,
                !.Leverage = <<c.LEVERAGE>>,
                !.Quantity = <<Round6(b.quantity)>>,
                !.EntryPrice = <<RoundClose2(b.entry_price, c)>>,
                !.EntryCost = <<b.entry_cost>>,
                !.L_PTPrice = IF Long(b) THEN <<Round3(b.pt_price[1], c)>> ELSE NaN,
                !.L_SLPrice = IF Long(b) THEN <<Round3(b.sl_price[1], c)>> ELSE NaN,
                !.S_PTPrice = IF Short(b) THEN <<Round3(b.pt_price[1], c)>> ELSE NaN,
                !.S_SLPrice = IF Short(b) THEN <<Round3(b.sl_price[1], c)>> ELSE NaN]

\* A mutant of hit_pt: a close exactly at the target does not hit it.
hit_pt_strict(b, close) ==
    IF Long(b) THEN close * 100 > b.pt_price[1]
    ELSE IF Short(b) THEN close * 100 < b.pt_price[1]
    ELSE FALSE

\* close against the unrounded target and stop of the open trade
hit_pt(b, close) ==
    IF Long(b) THEN close * 100 >= b.pt_price[1]
    ELSE IF Short(b) THEN close * 100 <= b.pt_price[1]
    ELSE FALSE

hit_sl(b, close) ==
    IF Long(b) THEN close * 100 <= b.sl_price[1]
    ELSE IF Short(b) THEN close * 100 >= b.sl_price[1]
    ELSE FALSE

\* A mutant of ExitCost: the quantity is valued at the entry price.
ExitCostAtEntryPrice(close, q) == q.num

\* round(close * quantity, 2)
ExitCost(close, q) ==
    LET g == GCD(close, q.den)
    IN  RoundHalfEven((close \div g) * q.num, q.den \div g)

\* A mutant of ProfitLoss: the difference is counted twice.
ProfitLossTwice(exitCost, entry_cost) == 2 * (exitCost - entry_cost)

\* round(ExitCost - entry_cost, 2): both are whole hundredths
ProfitLoss(exitCost, entry_cost) == exitCost - entry_cost

\* A mutant of new_balance: the profit is added twice.
new_balance_doubled(current_balance, profitLoss) == current_balance + 2 * profitLoss

new_balance(current_balance, profitLoss) == current_balance + profitLoss

\* A mutant of ExitTrade: the running balance is not moved by the exit.
ExitTradeBalanceKept(b, out, close, c) ==
    LET xc == ExitCost(close, [b.quantity EXCEPT !.den = @ * c.close_scale])
        pl == ProfitLoss(xc, b.entry_cost)
        nb == new_balance(b.current_balance, pl)
    IN  [bt  |-> [b EXCEPT !.in_trade = FALSE,
                           !.prev_entry_exit = <<2>>, !.prev_in_trade = 1],
         out |-> [out EXCEPT !.EntryExit = <<2>>, !.ExitPrice = <<RoundClose3(close, c)>>,
                             !.ExitCost = <<xc>>, !.ProfitLoss = <<pl>>,
                             !.EndingBalance = <<nb>>]]

\* the exit branch up to its continue; close is in units of Close, so the
\* quantity is taken per unit
ExitTrade(b, out, close, c) ==
    LET xc == ExitCost(close, [b.quantity EXCEPT !.den = @ * c.close_scale])
        pl == ProfitLoss(xc, b.entry_cost)
        nb == new_balance(b.current_balance, pl)
    IN  [bt  |-> [b EXCEPT !.current_balance = nb, !.in_trade = FALSE,
                           !.prev_entry_exit = <<2>>, !.prev_in_trade = 1],
         out |-> [out EXCEPT !.EntryExit = <<2>>, !.ExitPrice = <<RoundClose3(close, c)>>,
                             !.ExitCost = <<xc>>, !.ProfitLoss = <<pl>>,
                             !.EndingBalance = <<nb>>]]

\* A mutant of can_enter: the case of a previous exit row is lost.
can_enter_never_traded(prev_entry_exit, prev_in_trade) ==
    prev_entry_exit = NaN /\ prev_in_trade = 0

can_enter(prev_entry_exit, prev_in_trade) ==
    \/ prev_entry_exit = NaN /\ prev_in_trade = 0
    \/ prev_entry_exit = <<2>> /\ prev_in_trade = 1

\* A mutant of EntryCondition: a signal alone opens a position.
EntryConditionOnSignal(in_trade, prev_entry_exit, prev_in_trade, buy_sig, sell_sig) ==
    buy_sig = 1 \/ sell_sig = 1

\* the condition of the entry branch
EntryCondition(in_trade, prev_entry_exit, prev_in_trade, buy_sig, sell_sig) ==
    /\ ~in_trade
    /\ can_enter(prev_entry_exit, prev_in_trade)
    /\ (buy_sig = 1 \/ sell_sig = 1)

\* the entry branch: a buy signal wins over a sell signal on the same row.
\* At a Close of 0 the quantity is not finite and entry_cost = 0 * quantity
\* is nan: the row is stamped with them, and the amounts of the rows after
\* it, which are not finite either, are not followed (pc "nonfinite").
EnterTrade(b, out, row, c) ==
    LET close == row.close
        long  == row.BuySignal = 1
        q     == [num |-> b.current_balance * c.LEVERAGE * c.close_scale, den |-> close]
        cost  == IF close = 0 THEN NaN ELSE b.current_balance * c.LEVERAGE
        pt    == IF long THEN close * (100 + c.L_PT) ELSE close * (100 - c.S_PT)
        sl    == IF long THEN close * (100 - Abs(c.L_SL)) ELSE close * (100 + Abs(c.S_SL))
    IN  [bt  |-> [b EXCEPT !.in_trade = TRUE, !.entry_price = close, !.quantity = q,
                           !.entry_cost = cost, !.pt_price = <<pt>>, !.sl_price = <<sl>>,
                           !.trade_direction = IF long THEN "long" ELSE "short",
                           !.pc = IF close = 0 THEN "nonfinite" ELSE @],
         out |-> [out EXCEPT !.L_PTPrice = IF long THEN <<Round3(pt, c)>> ELSE @,
                             !.L_SLPrice = IF long THEN <<Round3(sl, c)>> ELSE @,
                             !.S_PTPrice = IF long THEN @ ELSE <<Round3(pt, c)>>,
                             !.S_SLPrice = IF long THEN @ ELSE <<Round3(sl, c)>>,
                             !.InTrade = 1, !.EntryExit = <<1>>,
                             !.LongShort = IF long THEN "Long" ELSE "Short",
                             !.StartingBalance = <<b.current_balance>>,
                             !.Leverage = <<c.LEVERAGE>>,
                             !.Quantity = IF NonFinite(q) = "nan" /\ close = 0
                                          THEN NaN ELSE <<Round6(q)>>,
                             !.EntryPrice = <<RoundClose3(close, c)>>,
                             !.EntryCost = IF close = 0 THEN NaN ELSE <<cost>>]]

\* A mutant of EntryLogic: the exit test is run on the row of the entry too.
EntryLogicExitsAtOnce(b, out, row, c) ==
    LET e == IF EntryCondition(b.in_trade, b.prev_entry_exit, b.prev_in_trade,
                               row.BuySignal, row.SellSignal)
             THEN EnterTrade(b, out, row, c)
             ELSE [bt |-> b, out |-> out]
        x == IF ~b.in_trade /\ e.bt.in_trade
                /\ (hit_pt(e.bt, row.close) \/ hit_sl(e.bt, row.close))
             THEN ExitTrade(e.bt, e.out, row.close, c)
             ELSE e
    IN  [bt  |-> [x.bt EXCEPT !.prev_entry_exit = x.out.EntryExit,
                              !.prev_in_trade = x.out.InTrade],
         out |-> x.out]

\* the entry logic and the tracking of the row for the next one
EntryLogic(b, out, row, c) ==
    LET e == IF EntryCondition(b.in_trade, b.prev_entry_exit, b.prev_in_trade,
                               row.BuySignal, row.SellSignal)
             THEN EnterTrade(b, out, row, c)
             ELSE [bt |-> b, out |-> out]
    IN  [bt  |-> [e.bt EXCEPT !.prev_entry_exit = e.out.EntryExit,
                              !.prev_in_trade = e.out.InTrade],
         out |-> e.out]

\* A mutant of SkipsEntry: the continue is lost.
SkipsEntryNever(exited) == FALSE

\* the continue of the exit branch
SkipsEntry(exited) == exited

\* one iteration of the loop over the rows of the group
BarStep(b, row, c) ==
    LET carried == IF b.in_trade THEN CarryForward(b, BlankRow(row), c) ELSE BlankRow(row)
        exited  == b.in_trade /\ (hit_pt(b, row.close) \/ hit_sl(b, row.close))
        x       == IF exited THEN ExitTrade(b, carried, row.close, c)
                   ELSE [bt |-> b, out |-> carried]
    IN  IF SkipsEntry(exited) THEN x ELSE EntryLogic(x.bt, x.out, row, c)

\* the run enters backtest_group for the group
BacktestStart ==
    /\ bt.pc = "idle"
    /\ bt' = StartOfGroup(cfg)
    /\ UNCHANGED <<cfg, fetch, analysis, live, store, lpd, source, ledger, upsert, runner>>

\* the loop takes the next row of the group, in DateTime order
BacktestBar ==
    /\ bt.pc = "running"
    /\ Len(source) < MaxSource
    /\ \E close \in cfg.closes, sig \in SignalPairs :
          LET row == SourceRow(Len(source) + 1, close, sig)
              r   == BarStep(bt, row, cfg)
          IN  /\ source' = Append(source, row)
              /\ bt' = r.bt
              /\ ledger' = Append(ledger, r.out)
    /\ UNCHANGED <<cfg, fetch, analysis, live, store, lpd, upsert, runner>>

\* leverage 1 and 2 with targets and stops of 50 percent
BacktestConfigs == { [BaseCfg EXCEPT !.LEVERAGE = l] : l \in {1, 2} }

InitBacktest == cfg \in BacktestConfigs /\ Idle

NextBacktest == BacktestStart \/ BacktestBar

SpecBacktest == InitBacktest /\ [][NextBacktest]_vars

(***************************************************************************)
(* Properties of the trade ledger.                                         *)
(***************************************************************************)
IsEntry(r) == r.EntryExit = <<1>>
IsExit(r) == r.EntryExit = <<2>>

\* the entry and exit events of the ledger, in bar order
Events == SelectSeq(ledger, LAMBDA r : r.EntryExit # NaN)

\* C4: the events of the ledger alternate entry, exit, entry, ..., and the
\* first one is an entry.
C4_EventsAlternate ==
    \A k \in 1..Len(Events) :
        IF k % 2 = 1 THEN IsEntry(Events[k]) ELSE IsExit(Events[k])

\* two trades were opened and closed
C4_Witness == Len(Events) >= 4

\* C5: a bar that closes the position stays an exit bar although it may
\* carry a signal, no position is opened on it, and the simulator is flat
\* once the bar is processed.
C5_NoEntryOnExitBar ==
    /\ \A i \in 1..Len(ledger) : ledger[i].ExitPrice # NaN => IsExit(ledger[i])
    /\ (ledger # <<>> /\ ledger[Len(ledger)].ExitPrice # NaN) => ~bt.in_trade

\* the bar just processed closed the position and carries a signal
C5_Witness ==
    /\ ledger # <<>>
    /\ IsExit(ledger[Len(ledger)])
    /\ (ledger[Len(ledger)].BuySignal = 1 \/ ledger[Len(ledger)].SellSignal = 1)
    /\ ~bt.in_trade

\* C6 as stated: an entry comes before every exit of the group or on the
\* bar right after an exit bar.
C6_EntryOnlyAfterExit ==
    \A i \in 1..Len(ledger) :
        IsEntry(ledger[i]) =>
            \/ \A j \in 1..(i - 1) : ~IsExit(ledger[j])
            \/ i > 1 /\ IsExit(ledger[i - 1])

\* C6: an entry comes on the first bar, on the bar after an exit bar, or on
\* the bar after a bar that was flat and recorded no event.
C6_EntryAfterFlatOrExit ==
    \A i \in 1..Len(ledger) :
        IsEntry(ledger[i]) =>
            \/ i = 1
            \/ i > 1 /\ IsExit(ledger[i - 1])
            \/ i > 1 /\ ledger[i - 1].EntryExit = NaN /\ ledger[i - 1].InTrade = 0

\* a trade has closed, a flat bar without event followed it, and the next
\* bar opened a position
C6_Witness ==
    \E i \in 3..Len(ledger) :
        /\ IsEntry(ledger[i])
        /\ ledger[i - 1].EntryExit = NaN /\ ledger[i - 1].InTrade = 0
        /\ IsExit(ledger[i - 2])

\* the exit row closed its trade at the stamped profit target
AtTarget(r) ==
    \/ r.LongShort = "Long" /\ r.close * 10 >= r.L_PTPrice[1]
    \/ r.LongShort = "Short" /\ r.close * 10 <= r.S_PTPrice[1]

\* C7: an exit at the profit target, Long or Short, has ProfitLoss >= 0 and
\* an ending balance not below the starting balance.
C7_ProfitAtTarget ==
    \A i \in 1..Len(ledger) :
        (IsExit(ledger[i]) /\ AtTarget(ledger[i])) =>
            /\ ledger[i].ProfitLoss[1] >= 0
            /\ ledger[i].EndingBalance[1] >= ledger[i].StartingBalance[1]

\* a Long trade opened with a balance that is not negative gains at its target
LongProfitAtTarget ==
    \A i \in 1..Len(ledger) :
        (/\ IsExit(ledger[i]) /\ AtTarget(ledger[i])
         /\ ledger[i].LongShort = "Long" /\ ledger[i].StartingBalance[1] >= 0) =>
            ledger[i].ProfitLoss[1] >= 0

\* C8: on an exit row, EndingBalance - StartingBalance is ProfitLoss to
\* within one hundredth.
C8_BalanceConservation ==
    \A i \in 1..Len(ledger) :
        IsExit(ledger[i]) =>
            Abs(ledger[i].EndingBalance[1] - ledger[i].StartingBalance[1]
                - ledger[i].ProfitLoss[1]) <= 1

\* an exit row with a loss and one with a gain
C8_Witness ==
    /\ \E i \in 1..Len(ledger) : IsExit(ledger[i]) /\ ledger[i].ProfitLoss[1] < 0
    /\ \E i \in 1..Len(ledger) : IsExit(ledger[i]) /\ ledger[i].ProfitLoss[1] > 0

(***************************************************************************)
(* The signal detection of the batch script on its own: the rows come      *)
(* labelled out of the two labelling passes, the detection loop runs over  *)
(* them.                                                                   *)
(***************************************************************************)
\* a labelled swing row: HH and LH are written on swing highs, HL and LL on
\* swing lows
SwingKinds ==
    { [IsSwingHigh |-> TRUE, IsSwingLow |-> FALSE, SwingType |-> "HH"],
      [IsSwingHigh |-> TRUE, IsSwingLow |-> FALSE, SwingType |-> "LH"],
      [IsSwingHigh |-> FALSE, IsSwingLow |-> TRUE, SwingType |-> "HL"],
      [IsSwingHigh |-> FALSE, IsSwingLow |-> TRUE, SwingType |-> "LL"] }

SwingRow(t, k) ==
    [t |-> t, IsSwingHigh |-> k.IsSwingHigh, IsSwingLow |-> k.IsSwingLow,
     SwingType |-> k.SwingType, BuySignal |-> 0, SellSignal |-> 0]

\* the swing lists of 0 to MaxSwings labelled swings
SwingLists ==
    UNION { {[i \in 1..n |-> SwingRow(i, f[i])] : f \in [1..n -> SwingKinds]} : n \in 0..MaxSwings }

\* the detection loop over the labelled rows
SignalDetection ==
    /\ analysis.status = "labelled"
    /\ LET rows  == analysis.rows
           types == [i \in 1..Len(rows) |-> rows[i].SwingType]
           sig   == DetectSignals(rows, types, cfg)
       IN  analysis' =
             [status |-> "ok",
              rows |-> [i \in 1..Len(rows) |->
                          [rows[i] EXCEPT !.BuySignal = sig[i].BuySignal,
                                          !.SellSignal = sig[i].SellSignal]]]
    /\ UNCHANGED <<cfg, fetch, live, store, lpd, source, bt, ledger, upsert, runner>>

PatternConfigs ==
    { [BaseCfg EXCEPT !.ENTRY = e, !.TARGET_DIRECTION = d] : e \in {1, 2}, d \in {1, 2, 3} }

InitPattern ==
    /\ cfg \in PatternConfigs
    /\ fetch = <<>> /\ live = <<>> /\ store = <<>> /\ lpd = 0 /\ upsert = NoUpsert /\ runner = NoRunner
    /\ source = <<>> /\ bt = NoBt /\ ledger = <<>>
    /\ \E sw \in SwingLists : analysis = [status |-> "labelled", rows |-> sw]

SpecPattern == InitPattern /\ [][SignalDetection]_vars

\* the swing types of the rows, in order
SwingTypesOf(rows) == [i \in 1..Len(rows) |-> rows[i].SwingType]

\* C11: Mixed, Long, EntryCount 1, the swings HL, HH, HL, HH, HL: exactly one
\* buy signal, on the last swing.
C11_OneBuyOnLastSwing ==
    (/\ analysis.status = "ok"
     /\ cfg.ENTRY = 2 /\ cfg.TARGET_DIRECTION = 1 /\ cfg.ENTRY_COUNT = 1
     /\ SwingTypesOf(analysis.rows) = <<"HL", "HH", "HL", "HH", "HL">>) =>
        /\ analysis.rows[5].BuySignal = 1
        /\ \A i \in 1..4 : analysis.rows[i].BuySignal = 0

(***************************************************************************)
(* The backtest with a balance of 10000.00, leverage 1 and targets and     *)
(* stops of 2 percent, over closes of 100.00, 101.00 and 103.00.           *)
(***************************************************************************)
TwoPercentConfigs ==
    { [BaseCfg EXCEPT !.STARTING_BALANCE = 1000000, !.LEVERAGE = 1,
                      !.L_PT = 2, !.L_SL = 2, !.S_PT = 2, !.S_SL = 2,
                      !.closes = {10000, 10100, 10300}] }

InitTwoPercent == cfg \in TwoPercentConfigs /\ Idle

SpecTwoPercent == InitTwoPercent /\ [][NextBacktest]_vars

\* the simulator is flat when the loop reaches row i
FlatAt(i) == i = 1 \/ IsExit(ledger[i - 1]) \/ ledger[i - 1].InTrade = 0

\* the running balance when the loop reaches row i
RECURSIVE BalanceAt(_)
BalanceAt(i) ==
    IF i = 1 THEN cfg.STARTING_BALANCE
    ELSE IF IsExit(ledger[i - 1]) THEN ledger[i - 1].EndingBalance[1]
    ELSE BalanceAt(i - 1)

\* row i is a buy signal at close 100.00 on a flat bar with 10000.00
BuyAt100(i) ==
    /\ ledger[i].BuySignal = 1 /\ ledger[i].close = 10000
    /\ FlatAt(i) /\ BalanceAt(i) = 1000000

\* row j is the first row after i with close 103.00
FirstAt103(i, j) ==
    /\ j > i /\ ledger[j].close = 10300
    /\ \A k \in (i + 1)..(j - 1) : ledger[k].close # 10300

\* C12: the buy at 100.00 records quantity 100, entry cost 10000.00, target
\* 102.000 and stop 98.000; the first later bar at 103.00 records the exit
\* with exit cost 10300.00, profit 300.00 and ending balance 10300.00.
C12_TwoPercentTrade ==
    \A i \in 1..Len(ledger) :
        BuyAt100(i) =>
            /\ IsEntry(ledger[i])
            /\ ledger[i].Quantity = << <<100, 0>> >>
            /\ ledger[i].EntryCost = <<1000000>>
            /\ ledger[i].L_PTPrice = <<102000>>
            /\ ledger[i].L_SLPrice = <<98000>>
            /\ \A j \in 1..Len(ledger) :
                  FirstAt103(i, j) =>
                      /\ IsExit(ledger[j])
                      /\ ledger[j].ExitCost = <<1030000>>
                      /\ ledger[j].ProfitLoss = <<30000>>
                      /\ ledger[j].EndingBalance = <<1030000>>

\* the buy at 100.00, a bar at 101.00 that leaves the trade open, and the
\* exit at 103.00
C12_Witness ==
    \E i \in 1..Len(ledger) :
        /\ BuyAt100(i)
        /\ \E j \in 1..Len(ledger) :
              FirstAt103(i, j) /\ j > i + 1 /\ IsExit(ledger[j])

(***************************************************************************)
(* The backtest with a StartingBalance that is not positive: _get_param    *)
(* casts the value and the run goes on with it.                            *)
(***************************************************************************)
NonPositiveBalanceConfigs ==
    { [BaseCfg EXCEPT !.STARTING_BALANCE = b] : b \in {0, -10000} }

InitNonPositiveBalance == cfg \in NonPositiveBalanceConfigs /\ Idle

SpecNonPositiveBalance == InitNonPositiveBalance /\ [][NextBacktest]_vars

\* C13: with a StartingBalance <= 0 the run is rejected before any row is
\* processed: no row of the ledger is written.
C13_InvalidConfigRejected ==
    cfg.STARTING_BALANCE <= 0 => ledger = <<>>

(***************************************************************************)
(* The backtest over rows whose Close may be 0.                            *)
(***************************************************************************)
ZeroCloseConfigs == { [BaseCfg EXCEPT !.closes = {0, 100, 200}] }

InitZeroClose == cfg \in ZeroCloseConfigs /\ Idle

SpecZeroClose == InitZeroClose /\ [][NextBacktest]_vars

\* C14: a signal on a flat bar whose close is 0 opens no position.
C14_NoEntryAtZeroClose ==
    \A i \in 1..Len(ledger) : ledger[i].close = 0 => ~IsEntry(ledger[i])

(***************************************************************************)
(* One configuration of the batch driver: the analysis script, then the    *)
(* backtest script over the rows the analysis wrote, whatever the exit     *)
(* status of the analysis.                                                 *)
(***************************************************************************)
\* the exit status of the analysis script: sys.exit(0) on an empty load, 0
\* at the end of the script, 1 for the uncaught KeyError
ExitStatus(status) == IF status = "KeyError" THEN 1 ELSE 0

\* a load that never looks at df.empty
LoadDataUnchecked(rows, c) == StartOfGroup(c)

\* the backtest's load: no row for the run is sys.exit(0) before anything
\* is computed or written
LoadData(rows, c) ==
    IF rows = <<>> THEN [pc |-> "exit", code |-> 0] ELSE StartOfGroup(c)

\* the backtest script starts after the analysis script has ended
LoadBacktest ==
    /\ analysis.status # "none"
    /\ bt.pc = "idle"
    /\ bt' = LoadData(analysis.rows, cfg)
    /\ UNCHANGED <<cfg, fetch, analysis, live, store, lpd, source, ledger, upsert, runner>>

\* the loop takes the next row the analysis wrote, Close in hundredths
BacktestRow ==
    /\ bt.pc = "running"
    /\ Len(source) < Len(analysis.rows)
    /\ LET a   == analysis.rows[Len(source) + 1]
           row == SourceRow(a.t, a.close * 100, <<a.BuySignal, a.SellSignal>>)
           r   == BarStep(bt, row, cfg)
       IN  /\ source' = Append(source, row)
           /\ bt' = r.bt
           /\ ledger' = Append(ledger, r.out)
    /\ UNCHANGED <<cfg, fetch, analysis, live, store, lpd, upsert, runner>>

RunConfigs == { [BaseCfg EXCEPT !.shapes = Shapes \ { <<2, 2, 2>> }] }

InitRun == cfg \in RunConfigs /\ Idle

NextRun == FetchBar \/ RunAnalysis \/ LoadBacktest \/ BacktestRow

SpecRun == InitRun /\ [][NextRun]_vars

\* C15: with zero bars in the store for the run, the analysis ends with exit
\* status 0 and no row written, and the backtest ends with exit status 0
\* and no row written.
C15_EmptyInputExitsClean ==
    /\ (fetch = <<>> /\ analysis.status # "none") =>
          /\ ExitStatus(analysis.status) = 0
          /\ analysis.rows = <<>>
    /\ (analysis.rows = <<>> /\ bt.pc # "idle") =>
          /\ bt = [pc |-> "exit", code |-> 0]
          /\ ledger = <<>>

C15_Witness ==
    /\ fetch = <<>>
    /\ analysis.status = "empty"
    /\ bt.pc = "exit"

(***************************************************************************)
(* The two labelling passes of the batch analysis.                         *)
(***************************************************************************)
\* the SwingType column between the swing-high pass and the swing-low pass
AfterHighPass(s, c) ==
    LabelHighs(s, SwingDetection(s, c.LOOKBACK), c, 1, 0, [i \in 1..Len(s) |-> None])

\* C16: a SwingType written by the swing-high pass is the row's SwingType
\* after the swing-low pass, also on a row that is both a swing high and a
\* swing low.
C16_HighLabelKept ==
    analysis.status = "ok" =>
        \A i \in 1..Len(fetch) :
            AfterHighPass(fetch, cfg)[i] # None =>
                analysis.rows[i].SwingType = AfterHighPass(fetch, cfg)[i]

(***************************************************************************)
(* The live analysis started on a live table that already holds candles    *)
(* (cfg.history of them): the first turn of the loop processes them all,   *)
(* the later turns a window.  tph 1 is an hourly feed, tph 13 a feed of    *)
(* thirteen candles an hour.                                               *)
(***************************************************************************)
MaxHistory == 14

\* the candles written before the start: closes 2, 3, 2, 3, ...
History(n) ==
    [i \in 1..n |-> IF i % 2 = 1 THEN Bar(i, 2, 1, 2) ELSE Bar(i, 3, 2, 3)]

LiveFeedOn == LiveAppend(cfg.history + MaxUpdated)

WindowConfigs ==
    { [BaseCfg EXCEPT !.TREND_LINE_RANGE = 1, !.tph = tph, !.history = n,
                      !.shapes = { <<2, 1, 2>>, <<3, 2, 3>> }] :
        tph \in {1, 13}, n \in 0..MaxHistory }

InitWindow ==
    /\ cfg \in WindowConfigs
    /\ fetch = <<>> /\ analysis = NoAnalysis
    /\ live = History(cfg.history) /\ store = <<>> /\ lpd = 0 /\ upsert = NoUpsert /\ runner = NoRunner
    /\ source = <<>> /\ bt = NoBt /\ ledger = <<>>

NextWindow == LiveFeedOn \/ LivePoll

SpecWindow == InitWindow /\ [][NextWindow]_vars

\* the position in the window w of the row with DateTime t
IndexOf(w, t) == CHOOSE i \in 1..Len(w) : w[i].t = t

\* the stored rows before DateTime t
StoredBefore(t) == SelectSeq(store, LAMBDA r : r.t < t)

\* C17: after the first poll, the window of the next poll holds for every
\* new bar at least LOOKBACK earlier bars when the store holds as many, and
\* earlier bars reaching back TREND_LINE_RANGE hours when the store's do.
C17_WindowCoversHistory ==
    lpd # 0 =>
        LET w == Window(live, store, lpd, cfg)
        IN  \A k \in 1..Len(live) :
                live[k].t > lpd =>
                    LET t    == live[k].t
                        old  == StoredBefore(t)
                    IN  /\ HasRow(w, t)
                        /\ Len(old) >= cfg.LOOKBACK => IndexOf(w, t) - 1 >= cfg.LOOKBACK
                        /\ (old # <<>> /\ t - old[1].t >= cfg.TREND_LINE_RANGE * cfg.tph)
                              => t - w[1].t >= cfg.TREND_LINE_RANGE * cfg.tph

(***************************************************************************)
(* The live loop when a write of the upsert can raise: fail is the row     *)
(* write that raises, the one after the last row is conn.commit(), 0 is    *)
(* no failure.                                                             *)
(***************************************************************************)
\* an except branch that returns the zeros without conn.rollback()
UpsertOutcomeNoRollback(st, rs, last, fail) ==
    IF fail = 0 THEN insert_analysis_results(st, rs, last)
    ELSE [store |-> insert_analysis_results(st, SubSeq(rs, 1, fail - 1), last).store,
          rows |-> 0, new_rows |-> 0]

\* try: the loop and conn.commit(); except: conn.rollback(), return 0, [], 0
UpsertOutcome(st, rs, last, fail) ==
    IF fail = 0 THEN insert_analysis_results(st, rs, last)
    ELSE [store |-> st, rows |-> 0, new_rows |-> 0]

\* One turn of the loop, the upsert failing or not.
LivePollUpsert ==
    /\ LET w == Window(live, store, lpd, cfg)
       IN  IF w = <<>>
           THEN UNCHANGED <<store, lpd, upsert>>
           ELSE LET rs == ToInsert(process_new_data(w, cfg), lpd)
                IN  \E fail \in 0..(Len(rs) + 1) :
                        LET res == UpsertOutcome(store, rs, lpd, fail)
                        IN  /\ store' = res.store
                            /\ lpd' = AdvanceLpd(res, rs, lpd)
                            /\ upsert' = [rows |-> res.rows, new_rows |-> res.new_rows,
                                          fail |-> fail]
    /\ UNCHANGED <<cfg, fetch, analysis, live, source, bt, ledger, runner>>

NextUpsert == LiveFeedOne \/ LivePollUpsert

SpecUpsert == InitLive /\ [][NextUpsert]_vars

\* C18: a poll whose upsert fails at any write leaves the analysis table as
\* it was before the poll, returns zero rows and leaves
\* last_processed_datetime where it was, so the next poll has the same
\* window to process.
C18_UpsertAllOrNothing ==
    [][ (upsert'.fail # 0 /\ upsert' # upsert) =>
            /\ store' = store
            /\ upsert'.rows = 0 /\ upsert'.new_rows = 0
            /\ lpd' = lpd
            /\ Window(live', store', lpd', cfg') = Window(live, store, lpd, cfg) ]_vars

\* a poll whose second or later write failed, with an analysis table that
\* already has rows and a live bar still to process
C18_Witness ==
    /\ upsert.fail >= 2
    /\ store # <<>>
    /\ \E k \in 1..Len(live) : live[k].t > lpd

(***************************************************************************)
(* The batch analysis over a series shorter than LOOKBACK.                 *)
(***************************************************************************)
\* C19: the run over a series of fewer bars than LOOKBACK gives every bar
\* of the series with no swing flag and no signal.
C19_ShortSeriesUnmarked ==
    (fetch # <<>> /\ Len(fetch) < cfg.LOOKBACK /\ analysis.status # "none") =>
        /\ Len(Rows) = Len(fetch)
        /\ \A i \in 1..Len(Rows) :
              /\ ~Rows[i].IsSwingHigh /\ ~Rows[i].IsSwingLow
              /\ Rows[i].BuySignal = 0 /\ Rows[i].SellSignal = 0

\* The detection loop itself marks nothing on such a series, and no row
\* with a mark or a signal is written.
ShortSeriesNothingMarked ==
    (Len(fetch) < cfg.LOOKBACK /\ analysis.status # "none") =>
        /\ \A i \in 1..Len(fetch) :
              LET f == SwingDetection(fetch, cfg.LOOKBACK)[i]
              IN  ~f.IsSwingHigh /\ ~f.IsSwingLow
        /\ \A i \in 1..Len(Rows) :
              /\ ~Rows[i].IsSwingHigh /\ ~Rows[i].IsSwingLow
              /\ Rows[i].BuySignal = 0 /\ Rows[i].SellSignal = 0

(***************************************************************************)
(* The batch analysis over series with gaps of one and two hours and       *)
(* trend ranges of two and four hours.                                     *)
(***************************************************************************)
SlopeConfigs ==
    { [BaseCfg EXCEPT !.TREND_LINE_RANGE = r, !.gaps = {1, 2},
                      !.shapes = { <<2, 1, 2>>, <<3, 2, 3>> }] : r \in {2, 4} }

InitSlope == cfg \in SlopeConfigs /\ Idle

SpecSlope == InitSlope /\ [][NextBatch]_vars

\* the hours between the first and the last bar of the series, in ticks
SeriesSpan(s) == s[Len(s)].t - s[1].t

MaxGroups == 2

\* locals that live on from the call for the previous group
GroupStartCarried(b, c) == b

\* every call of backtest_group initialises its locals
GroupStart(b, c) == StartOfGroup(c)

\* the group of the call in progress (0 before the first row)
CurrentGroup == IF source = <<>> THEN 0 ELSE source[Len(source)].g

RowsOf(seq, g) ==
    LET mine == SelectSeq(seq, LAMBDA e : e.g = g)
    IN  [k \in 1..Len(mine) |-> mine[k].row]

\* the loop takes the next row of the group of the call in progress
GroupBar ==
    /\ bt.pc = "running"
    /\ Len(source) < MaxSource
    /\ \E close \in cfg.closes, sig \in SignalPairs :
          LET g   == Max2(CurrentGroup, 1)
              row == SourceRow(Len(RowsOf(source, g)) + 1, close, sig)
              r   == BarStep(bt, row, cfg)
          IN  /\ source' = Append(source, [g |-> g, row |-> row])
              /\ bt' = r.bt
              /\ ledger' = Append(ledger, [g |-> g, row |-> r.out])
    /\ UNCHANGED <<cfg, fetch, analysis, live, store, lpd, upsert, runner>>

\* backtest_group returns and is called for the next group, whose first row
\* the loop takes
NextGroup ==
    /\ bt.pc = "running"
    /\ CurrentGroup \in 1..(MaxGroups - 1)
    /\ Len(source) < MaxSource
    /\ \E close \in cfg.closes, sig \in SignalPairs :
          LET g   == CurrentGroup + 1
              row == SourceRow(1, close, sig)
              r   == BarStep(GroupStart(bt, cfg), row, cfg)
          IN  /\ source' = Append(source, [g |-> g, row |-> row])
              /\ bt' = r.bt
              /\ ledger' = Append(ledger, [g |-> g, row |-> r.out])
    /\ UNCHANGED <<cfg, fetch, analysis, live, store, lpd, upsert, runner>>

\* closes that hit the 50 percent target and stop from one bar to the next
GroupConfigs == { [BaseCfg EXCEPT !.closes = {100, 200}] }

InitGroups == cfg \in GroupConfigs /\ Idle

NextGroups == BacktestStart \/ GroupBar \/ NextGroup

SpecGroups == InitGroups /\ [][NextGroups]_vars

\* backtest_group over the rows of one group alone
RECURSIVE GroupAlone(_, _, _, _)
GroupAlone(rows, k, b, c) ==
    IF k > Len(rows) THEN <<>>
    ELSE LET r == BarStep(b, rows[k], c)
         IN  <<r.out>> \o GroupAlone(rows, k + 1, r.bt, c)

\* C21: the ledger of each group of a run is the ledger of a run that holds
\* that group alone: it starts Flat with the configured StartingBalance and
\* takes nothing from the group processed before it.
C21_GroupsIndependent ==
    \A g \in 1..MaxGroups :
        RowsOf(ledger, g) = GroupAlone(RowsOf(source, g), 1, StartOfGroup(cfg), cfg)

\* the first group ends inside a trade after a closed one, and the second
\* group opens a trade
C21_Witness ==
    /\ CurrentGroup = 2
    /\ \E i \in 1..Len(RowsOf(ledger, 1)) : IsExit(RowsOf(ledger, 1)[i])
    /\ RowsOf(ledger, 1)[Len(RowsOf(ledger, 1))].InTrade = 1
    /\ \E i \in 1..Len(RowsOf(ledger, 2)) : IsEntry(RowsOf(ledger, 2)[i])

\* C22: every row at least TREND_LINE_RANGE hours after the first row of the
\* series has a Slope, whatever the gaps between the rows.
C22_SlopeAfterInitialStretch ==
    analysis.status = "ok" =>
        \A i \in 1..Len(Rows) :
            Rows[i].t - Rows[1].t >= cfg.TREND_LINE_RANGE * cfg.tph => Rows[i].Slope # <<>>

(***************************************************************************)
(* A fetch run that holds the bars of two symbols: the analysis loads the  *)
(* rows of the FetchRunID ordered by DateTime, whatever their Symbol.      *)
(***************************************************************************)
Symbols == { "A", "B" }

SymbolBar(sym, t, h, l, c) == [sym |-> sym, t |-> t, high |-> h, low |-> l, close |-> c]

\* one more row of the fetch run, of either symbol
FetchBarOf ==
    /\ analysis.status = "none"
    /\ Len(fetch) < MaxBars
    /\ \E sym \in Symbols, sh \in cfg.shapes :
          fetch' = Append(fetch, SymbolBar(sym, NextT(fetch, 1), sh[1], sh[2], sh[3]))
    /\ UNCHANGED <<cfg, analysis, live, store, lpd, source, bt, ledger, upsert, runner>>

SymbolConfigs == { [BaseCfg EXCEPT !.shapes = { <<1, 1, 1>>, <<2, 1, 2>>, <<3, 2, 3>> }] }

InitSymbols == cfg \in SymbolConfigs /\ Idle

NextSymbols == FetchBarOf \/ RunAnalysis

SpecSymbols == InitSymbols /\ [][NextSymbols]_vars

\* the rows of one symbol in the fetch run
BarsOf(sym) == SelectSeq(fetch, LAMBDA b : b.sym = sym)

\* the swing flags, SwingType and signals C23 compares
GroupMarks(r) ==
    <<r.IsSwingHigh, r.IsSwingLow, r.SwingType, r.BuySignal, r.SellSignal>>

\* C23: the rows of a symbol get the swing flags, SwingType and signals
\* that a run over a fetch run holding only that symbol gives them.
C23_SymbolsIndependent ==
    analysis.status = "ok" =>
        \A sym \in Symbols :
            LET alone == BatchAnalysis(BarsOf(sym), cfg)
            IN  alone.status = "ok" =>
                    \A k \in 1..Len(alone.rows) :
                        GroupMarks(alone.rows[k]) = GroupMarks(RowAt(Rows, alone.rows[k].t))

\* C24: with LOOKBACK >= 2 no row is both a swing high and a swing low.
C24_BothFlagsOnlyLookbackOne ==
    (analysis.status = "ok" /\ cfg.LOOKBACK >= 2) =>
        \A i \in 1..Len(Rows) : ~(Rows[i].IsSwingHigh /\ Rows[i].IsSwingLow)

(***************************************************************************)
(* The batch analysis with LOOKBACK 4 (spacing 2) over series long enough  *)
(* for a swing, a rejected row and a third row after them.                 *)
(***************************************************************************)
MaxLongBars == 7

FetchLongBar ==
    /\ analysis.status = "none"
    /\ Len(fetch) < MaxLongBars
    /\ \E sh \in cfg.shapes :
          fetch' = Append(fetch, Bar(NextT(fetch, 1), sh[1], sh[2], sh[3]))
    /\ UNCHANGED <<cfg, analysis, live, store, lpd, source, bt, ledger, upsert, runner>>

DebounceConfigs ==
    { [BaseCfg EXCEPT !.LOOKBACK = 4, !.shapes = { <<1, 1, 1>>, <<2, 1, 2>>, <<3, 2, 3>> }] }

InitDebounce == cfg \in DebounceConfigs /\ Idle

NextDebounce == FetchLongBar \/ RunAnalysis

SpecDebounce == InitDebounce /\ [][NextDebounce]_vars

\* the last row before row k that is marked swing high (swing low), 0 if none
LastHighBefore(k) ==
    IF \E j \in 1..(k - 1) : Rows[j].IsSwingHigh
    THEN CHOOSE j \in 1..(k - 1) :
            Rows[j].IsSwingHigh /\ \A m \in (j + 1)..(k - 1) : ~Rows[m].IsSwingHigh
    ELSE 0

LastLowBefore(k) ==
    IF \E j \in 1..(k - 1) : Rows[j].IsSwingLow
    THEN CHOOSE j \in 1..(k - 1) :
            Rows[j].IsSwingLow /\ \A m \in (j + 1)..(k - 1) : ~Rows[m].IsSwingLow
    ELSE 0

\* C25: row k (index k - 1 of the frame) is marked swing high exactly when
\* k - 1 >= LOOKBACK, its High is at least the highest High of the LOOKBACK
\* rows before it, and the last row marked swing high, if any, is at least
\* LOOKBACK // 2 rows back; the reference is the last marked row, never a
\* rejected one.  Swing lows likewise on the lowest Low.
C25_SwingHighIff ==
    analysis.status = "ok" =>
        \A k \in 1..Len(Rows) :
            /\ Rows[k].IsSwingHigh <=>
                  /\ k - 1 >= cfg.LOOKBACK
                  /\ fetch[k].high >= MaxHigh(fetch, k - cfg.LOOKBACK, k - 1)
                  /\ LastHighBefore(k) = 0 \/ LastHighBefore(k) <= k - (cfg.LOOKBACK \div 2)
            /\ Rows[k].IsSwingLow <=>
                  /\ k - 1 >= cfg.LOOKBACK
                  /\ fetch[k].low <= MinLow(fetch, k - cfg.LOOKBACK, k - 1)
                  /\ LastLowBefore(k) = 0 \/ LastLowBefore(k) <= k - (cfg.LOOKBACK \div 2)

\* a swing high, then a row that passes the price test and is rejected, then
\* a row marked swing high two rows after the first
C25_Witness ==
    /\ analysis.status = "ok"
    /\ \E k \in 7..Len(Rows) :
          /\ Rows[k - 2].IsSwingHigh
          /\ fetch[k - 1].high >= MaxHigh(fetch, k - 1 - cfg.LOOKBACK, k - 2)
          /\ ~Rows[k - 1].IsSwingHigh
          /\ Rows[k].IsSwingHigh

(***************************************************************************)
(* The labels of the batch analysis, row by row.                           *)
(***************************************************************************)
NoRowWithBothFlags == \A k \in 1..Len(Rows) : ~(Rows[k].IsSwingHigh /\ Rows[k].IsSwingLow)

\* C26: filter off and no row with both flags: the first swing high has no
\* SwingType, a later one is HH when its High is above the High of the swing
\* high before it and LH otherwise; the first swing low has none, a later
\* one is LL when its Low is below the Low of the swing low before it and HL
\* otherwise.
C26_LabelsByPredecessor ==
    (analysis.status = "ok" /\ ~cfg.ENABLE_MIN_SWING /\ NoRowWithBothFlags) =>
        \A k \in 1..Len(Rows) :
            /\ Rows[k].IsSwingHigh =>
                  Rows[k].SwingType =
                      IF LastHighBefore(k) = 0 THEN None
                      ELSE IF fetch[k].high > fetch[LastHighBefore(k)].high THEN "HH" ELSE "LH"
            /\ Rows[k].IsSwingLow =>
                  Rows[k].SwingType =
                      IF LastLowBefore(k) = 0 THEN None
                      ELSE IF fetch[k].low < fetch[LastLowBefore(k)].low THEN "LL" ELSE "HL"

\* a swing high with the High of the swing high before it, and a swing low
\* with the Low of the swing low before it, in a series without a row that
\* has both flags
C26_Witness ==
    /\ analysis.status = "ok" /\ ~cfg.ENABLE_MIN_SWING /\ NoRowWithBothFlags
    /\ \E k \in 1..Len(Rows) :
          /\ Rows[k].IsSwingHigh /\ LastHighBefore(k) # 0
          /\ fetch[k].high = fetch[LastHighBefore(k)].high
    /\ \E k \in 1..Len(Rows) :
          /\ Rows[k].IsSwingLow /\ LastLowBefore(k) # 0
          /\ fetch[k].low = fetch[LastLowBefore(k)].low

(***************************************************************************)
(* The batch analysis with the minimum-swing filter at 40 percent: of the  *)
(* moves between the prices 1, 2 and 3 it drops 3 -> 2 and no move.        *)
(***************************************************************************)
FilterConfigs == { [BaseCfg EXCEPT !.ENABLE_MIN_SWING = TRUE, !.MIN_SWING_PCT = 40] }

InitFilter == cfg \in FilterConfigs /\ Idle

SpecFilter == InitFilter /\ [][NextBatch]_vars

\* abs(pct_change) < MIN_SWING_PCT for a swing at price current after one at prev
Filtered(current, prev) == Abs(current - prev) * 100 < cfg.MIN_SWING_PCT * prev

\* what the claim gives a swing high (low) after a predecessor
ExpectedHigh(k) ==
    IF Filtered(fetch[k].high, fetch[LastHighBefore(k)].high) THEN None
    ELSE IF fetch[k].high > fetch[LastHighBefore(k)].high THEN "HH" ELSE "LH"

ExpectedLow(k) ==
    IF Filtered(fetch[k].low, fetch[LastLowBefore(k)].low) THEN None
    ELSE IF fetch[k].low < fetch[LastLowBefore(k)].low THEN "LL" ELSE "HL"

\* swing high (low) k is filtered, or comes right after a filtered one
HighInFilterCase(k) ==
    /\ Rows[k].IsSwingHigh /\ LastHighBefore(k) # 0
    /\ \/ Filtered(fetch[k].high, fetch[LastHighBefore(k)].high)
       \/ /\ LastHighBefore(LastHighBefore(k)) # 0
          /\ Filtered(fetch[LastHighBefore(k)].high,
                      fetch[LastHighBefore(LastHighBefore(k))].high)

LowInFilterCase(k) ==
    /\ Rows[k].IsSwingLow /\ LastLowBefore(k) # 0
    /\ \/ Filtered(fetch[k].low, fetch[LastLowBefore(k)].low)
       \/ /\ LastLowBefore(LastLowBefore(k)) # 0
          /\ Filtered(fetch[LastLowBefore(k)].low,
                      fetch[LastLowBefore(LastLowBefore(k))].low)

\* C27: with the filter on, a swing high whose change from the swing high
\* before it is below MIN_SWING_PCT has a null SwingType, and the swing high
\* after it is compared with it, not with the last labelled one; likewise
\* for swing lows.
C27_FilteredSwingIsReference ==
    (analysis.status = "ok" /\ cfg.ENABLE_MIN_SWING) =>
        \A k \in 1..Len(Rows) :
            /\ HighInFilterCase(k) => Rows[k].SwingType = ExpectedHigh(k)
            /\ LowInFilterCase(k) => Rows[k].SwingType = ExpectedLow(k)

\* C27 as the code has it: the statement for swing highs holds on the rows
\* that are not also swing lows (such a row ends with what the low pass
\* gives it); the statement for swing lows holds on every row.
C27_FilteredSwingIsReferenceUnlessLow ==
    (analysis.status = "ok" /\ cfg.ENABLE_MIN_SWING) =>
        \A k \in 1..Len(Rows) :
            /\ (HighInFilterCase(k) /\ ~Rows[k].IsSwingLow) =>
                  Rows[k].SwingType = ExpectedHigh(k)
            /\ LowInFilterCase(k) => Rows[k].SwingType = ExpectedLow(k)

\* a filtered swing high that is not a swing low, and the next swing high
\* labelled against it
C27_Witness ==
    /\ analysis.status = "ok" /\ cfg.ENABLE_MIN_SWING
    /\ \E k, m \in 1..Len(Rows) :
          /\ Rows[k].IsSwingHigh /\ ~Rows[k].IsSwingLow /\ LastHighBefore(k) # 0
          /\ fetch[k].high # fetch[LastHighBefore(k)].high
          /\ Rows[k].SwingType = None
          /\ Rows[m].IsSwingHigh /\ ~Rows[m].IsSwingLow /\ LastHighBefore(m) = k
          /\ Rows[m].SwingType = "HH"

\* C28: a row with SwingType HH or LH is a swing high, a row with HL or LL
\* is a swing low, and a row with neither flag has no SwingType.
C28_TypeOnlyOnSwings ==
    analysis.status = "ok" =>
        \A k \in 1..Len(Rows) :
            /\ Rows[k].SwingType \in {"HH", "LH"} => Rows[k].IsSwingHigh
            /\ Rows[k].SwingType \in {"HL", "LL"} => Rows[k].IsSwingLow
            /\ (~Rows[k].IsSwingHigh /\ ~Rows[k].IsSwingLow) => Rows[k].SwingType = None

\* a label of each pass and a tested row that got neither flag
C28_Witness ==
    /\ analysis.status = "ok"
    /\ \E k \in 1..Len(Rows) : Rows[k].SwingType \in {"HH", "LH"}
    /\ \E k \in 1..Len(Rows) : Rows[k].SwingType \in {"HL", "LL"}
    /\ \E k \in (cfg.LOOKBACK + 1)..Len(Rows) : ~Rows[k].IsSwingHigh /\ ~Rows[k].IsSwingLow

(***************************************************************************)
(* The signals of the batch analysis, row by row.                          *)
(***************************************************************************)
PatternLength == 2 * cfg.ENTRY_COUNT + 1

\* the rows the signal detection keeps: a swing with a SwingType
TypedSwings == { k \in 1..Len(Rows) :
                    (Rows[k].IsSwingHigh \/ Rows[k].IsSwingLow) /\ Rows[k].SwingType # None }

\* the typed swings between row m (excluded) and row k (included)
After(m, k) == Cardinality({ n \in TypedSwings : m < n /\ n <= k })

\* the PatternLength typed swings that end at row k
PatternAt(k) == { m \in TypedSwings : m <= k /\ After(m, k) < PatternLength }

\* the 0-based position of row m in the pattern that ends at row k
PositionIn(m, k) == PatternLength - 1 - After(m, k)

\* C29: in Ordered mode a row with BuySignal has SwingType HL and is not a
\* swing high, a row with SellSignal has SwingType LH and is a swing high,
\* and the PatternLength typed swings ending at the row alternate HL, HH,
\* ..., HL with IsSwingHigh false, true, ..., false (LH, LL, ..., LH with
\* true, false, ..., true).
C29_OrderedSignals ==
    (analysis.status = "ok" /\ cfg.ENTRY = 1) =>
        \A k \in 1..Len(Rows) :
            /\ Rows[k].BuySignal = 1 =>
                  /\ Rows[k].SwingType = "HL" /\ ~Rows[k].IsSwingHigh
                  /\ Cardinality(PatternAt(k)) = PatternLength
                  /\ \A m \in PatternAt(k) :
                        /\ Rows[m].SwingType = IF PositionIn(m, k) % 2 = 0 THEN "HL" ELSE "HH"
                        /\ Rows[m].IsSwingHigh = (PositionIn(m, k) % 2 = 1)
            /\ Rows[k].SellSignal = 1 =>
                  /\ Rows[k].SwingType = "LH" /\ Rows[k].IsSwingHigh
                  /\ Cardinality(PatternAt(k)) = PatternLength
                  /\ \A m \in PatternAt(k) :
                        /\ Rows[m].SwingType = IF PositionIn(m, k) % 2 = 0 THEN "LH" ELSE "LL"
                        /\ Rows[m].IsSwingHigh = (PositionIn(m, k) % 2 = 0)

C29_Witness ==
    /\ analysis.status = "ok" /\ cfg.ENTRY = 1
    /\ \E k \in 1..Len(Rows) : Rows[k].BuySignal = 1

C29_SellReached ==
    /\ analysis.status = "ok" /\ cfg.ENTRY = 1
    /\ \E k \in 1..Len(Rows) : Rows[k].SellSignal = 1

\* C30: in Mixed mode, when the direction allows Long, every row that ends
\* PatternLength consecutive typed swings with all types in {HL, HH} has
\* BuySignal, in any order of the types and whatever the last one is; when
\* it allows Short, every row that ends PatternLength consecutive typed
\* swings with all types in {LH, LL} has SellSignal.
C30_MixedSignals ==
    (analysis.status = "ok" /\ cfg.ENTRY = 2) =>
        \A k \in TypedSwings :
            Cardinality(PatternAt(k)) = PatternLength =>
                /\ (cfg.TARGET_DIRECTION \in {1, 3}
                    /\ \A m \in PatternAt(k) : Rows[m].SwingType \in {"HL", "HH"})
                      => Rows[k].BuySignal = 1
                /\ (cfg.TARGET_DIRECTION \in {2, 3}
                    /\ \A m \in PatternAt(k) : Rows[m].SwingType \in {"LH", "LL"})
                      => Rows[k].SellSignal = 1

\* a BuySignal on a row of type HH that ends HH, HL, HH, and before it one
\* on a row of type HL
C30_Witness ==
    /\ analysis.status = "ok" /\ cfg.ENTRY = 2
    /\ \E k \in TypedSwings :
          /\ Rows[k].BuySignal = 1 /\ Rows[k].SwingType = "HH"
          /\ \E m \in PatternAt(k) : m < k /\ Rows[m].BuySignal = 1 /\ Rows[m].SwingType = "HL"

C30_SellReached ==
    /\ analysis.status = "ok" /\ cfg.ENTRY = 2
    /\ \E k \in TypedSwings : Rows[k].SellSignal = 1 /\ Rows[k].SwingType = "LL"

\* the row at 1-based position pos of the pattern that ends at row k
MemberAt(pos, k) == CHOOSE m \in PatternAt(k) : PositionIn(m, k) = pos - 1

PatternTypes(k) == [pos \in 1..PatternLength |-> Rows[MemberAt(pos, k)].SwingType]
PatternIsHigh(k) == [pos \in 1..PatternLength |-> Rows[MemberAt(pos, k)].IsSwingHigh]

\* row k ends a full pattern of typed swings
EndsPattern(k) == k \in TypedSwings /\ Cardinality(PatternAt(k)) = PatternLength

BuyFromPattern(k) ==
    /\ EndsPattern(k)
    /\ cfg.TARGET_DIRECTION \in {1, 3}
    /\ BuyMatch(PatternTypes(k), PatternIsHigh(k), EntryStr(cfg), PatternLength)

SellFromPattern(k) ==
    /\ EndsPattern(k)
    /\ cfg.TARGET_DIRECTION \in {2, 3}
    /\ ~BuyFromPattern(k)
    /\ SellMatch(PatternTypes(k), PatternIsHigh(k), EntryStr(cfg), PatternLength)

(***************************************************************************)
(* The signal detection over labelled rows that also hold swings without   *)
(* SwingType and rows without flag.                                        *)
(***************************************************************************)
RowKinds ==
    { k \in SwingKinds : k.SwingType # "LH" } \cup
    { [IsSwingHigh |-> TRUE, IsSwingLow |-> FALSE, SwingType |-> None],
      [IsSwingHigh |-> FALSE, IsSwingLow |-> FALSE, SwingType |-> None] }

RowLists(max) ==
    UNION { {[i \in 1..n |-> SwingRow(i, f[i])] : f \in [1..n -> RowKinds]} : n \in 0..max }

RowPatternConfigs == { [BaseCfg EXCEPT !.ENTRY = e] : e \in {1, 2} }

InitRowPattern ==
    /\ cfg \in RowPatternConfigs
    /\ fetch = <<>> /\ live = <<>> /\ store = <<>> /\ lpd = 0 /\ upsert = NoUpsert /\ runner = NoRunner
    /\ source = <<>> /\ bt = NoBt /\ ledger = <<>>
    /\ \E rl \in RowLists(MaxSwings) : analysis = [status |-> "labelled", rows |-> rl]

SpecRowPattern == InitRowPattern /\ [][SignalDetection]_vars

\* C31: the signals of a row are a function of the SwingType and
\* IsSwingHigh of the PatternLength typed swings that end at it: a row that
\* is not a typed swing, or has fewer typed swings up to it, has no signal,
\* and the rows between the members of a pattern play no part.
C31_SignalsFromTypedSwings ==
    analysis.status = "ok" =>
        \A k \in 1..Len(Rows) :
            /\ Rows[k].BuySignal = 1 <=> BuyFromPattern(k)
            /\ Rows[k].SellSignal = 1 <=> SellFromPattern(k)

\* a signal on a row whose pattern has, between its members, a swing
\* without SwingType and a row without any flag
C31_Witness ==
    /\ analysis.status = "ok"
    /\ \E k \in 1..Len(Rows) :
          /\ Rows[k].BuySignal = 1 \/ Rows[k].SellSignal = 1
          /\ \E n \in 1..k :
                /\ Rows[n].IsSwingHigh /\ Rows[n].SwingType = None
                /\ \E m \in PatternAt(k) : m < n
          /\ \E n \in 1..k :
                /\ ~Rows[n].IsSwingHigh /\ ~Rows[n].IsSwingLow
                /\ \E m \in PatternAt(k) : m < n
(***************************************************************************)
(* The open position, read off the ledger.                                 *)
(***************************************************************************)
\* the position opened on row e is still open when row k begins
OpenAt(e, k) ==
    /\ e < k /\ IsEntry(ledger[e])
    /\ \A j \in (e + 1)..(k - 1) : ledger[j].EntryExit = NaN

\* the close of row k against the target and the stop fixed on row e, in
\* ten-thousandths of the unit of Close
CloseMeetsExit(e, k) ==
    LET entry == ledger[e].close
        close == ledger[k].close * 100
    IN  IF ledger[e].LongShort = "Long"
        THEN \/ close >= entry * (100 + cfg.L_PT)
             \/ close <= entry * (100 - Abs(cfg.L_SL))
        ELSE \/ close <= entry * (100 - cfg.S_PT)
             \/ close >= entry * (100 + Abs(cfg.S_SL))

\* C32: on a bar that begins with the position of row e open, an exit is
\* recorded exactly when the close meets the condition of the direction,
\* no entry is recorded whatever the signals of the bar are, and the bar
\* stays in the trade with the direction of row e.
C32_ExitIffCloseMeets ==
    \A k \in 1..Len(ledger) : \A e \in 1..(k - 1) :
        OpenAt(e, k) =>
            /\ IsExit(ledger[k]) <=> CloseMeetsExit(e, k)
            /\ ~IsEntry(ledger[k])
            /\ ledger[k].InTrade = 1
            /\ ledger[k].LongShort = ledger[e].LongShort
            /\ (k = Len(ledger) /\ ~IsExit(ledger[k])) =>
                   /\ bt.in_trade
                   /\ bt.trade_direction = (IF ledger[e].LongShort = "Long" THEN "long" ELSE "short")
                   /\ bt.entry_price = ledger[e].close

\* a Long position stays open over a bar with a sell signal and over one
\* with a buy signal, and a later bar closes it
C32_Witness ==
    \E e \in 1..Len(ledger) : \E k \in (e + 3)..Len(ledger) :
        /\ OpenAt(e, k) /\ IsExit(ledger[k])
        /\ ledger[e].LongShort = "Long"
        /\ ledger[e + 1].SellSignal = 1 /\ ledger[e + 1].BuySignal = 0
        /\ ledger[e + 2].BuySignal = 1
(***************************************************************************)
(* The backtest over rows whose Close has three decimals: Close is in      *)
(* thousandths, close_scale is 10.                                         *)
(***************************************************************************)
FineCloses == {1000, 1234, 2000}

FineCloseConfigs == { [BaseCfg EXCEPT !.closes = FineCloses, !.close_scale = 10] }

InitFineClose == cfg \in FineCloseConfigs /\ Idle

SpecFineClose == InitFineClose /\ [][NextBacktest]_vars

\* the stamps of the position other than EntryPrice are those of row e
SameStampsButEntryPrice(e, k) ==
    /\ ledger[k].LongShort = ledger[e].LongShort
    /\ ledger[k].Quantity = ledger[e].Quantity
    /\ ledger[k].EntryCost = ledger[e].EntryCost
    /\ ledger[k].StartingBalance = ledger[e].StartingBalance
    /\ ledger[k].L_PTPrice = ledger[e].L_PTPrice
    /\ ledger[k].L_SLPrice = ledger[e].L_SLPrice
    /\ ledger[k].S_PTPrice = ledger[e].S_PTPrice
    /\ ledger[k].S_SLPrice = ledger[e].S_SLPrice

\* C33: every bar that begins with the position of row e open, the exit
\* bar included, is stamped with the direction, Quantity, EntryPrice,
\* EntryCost, StartingBalance and target and stop prices of row e.
C33_StampsCarried ==
    \A k \in 1..Len(ledger) : \A e \in 1..(k - 1) :
        OpenAt(e, k) =>
            /\ SameStampsButEntryPrice(e, k)
            /\ ledger[k].EntryPrice = ledger[e].EntryPrice

\* all the stamps but EntryPrice are carried
C33_OtherStampsCarried ==
    \A k \in 1..Len(ledger) : \A e \in 1..(k - 1) :
        OpenAt(e, k) => SameStampsButEntryPrice(e, k)

\* a position was carried over a bar and closed on the next
C33_Carried ==
    \E e \in 1..Len(ledger) : \E k \in (e + 2)..Len(ledger) :
        OpenAt(e, k) /\ IsExit(ledger[k])
\* no position is open when row k begins
NoPositionAt(k) == \A e \in 1..(k - 1) : ~OpenAt(e, k)

\* C34: in every state of the loop without an open position the can_enter
\* test on the previous row is true, and every row that begins flat and
\* has BuySignal or SellSignal set records an entry.
C34_CanEnterNeverBlocks ==
    /\ (bt.pc = "running" /\ ~bt.in_trade) =>
           can_enter(bt.prev_entry_exit, bt.prev_in_trade)
    /\ \A k \in 1..Len(ledger) :
           (NoPositionAt(k) /\ (ledger[k].BuySignal = 1 \/ ledger[k].SellSignal = 1)) =>
               IsEntry(ledger[k])

\* an entry on the row after an exit row, after an earlier entry on the row
\* after a flat row without signal
C34_Witness ==
    \E k \in 3..Len(ledger) :
        /\ IsEntry(ledger[k]) /\ IsExit(ledger[k - 1])
        /\ \E j \in 2..(k - 2) : IsEntry(ledger[j]) /\ ledger[j - 1].InTrade = 0
(***************************************************************************)
(* The backtest with profit targets of 0 percent: the close of the entry   *)
(* row is already at the target.                                           *)
(***************************************************************************)
ZeroTargetConfigs == { [BaseCfg EXCEPT !.L_PT = 0, !.S_PT = 0] }

InitZeroTarget == cfg \in ZeroTargetConfigs /\ Idle

SpecZeroTarget == InitZeroTarget /\ [][NextBacktest]_vars

\* C35: every exit row closes a position opened on an earlier row, an
\* entry row carries no exit column, and the position is open once the
\* entry row is processed.
C35_ExitAfterEntryBar ==
    /\ \A k \in 1..Len(ledger) :
           /\ IsExit(ledger[k]) => \E e \in 1..(k - 1) : OpenAt(e, k)
           /\ IsEntry(ledger[k]) =>
                  /\ ledger[k].ExitPrice = NaN /\ ledger[k].ExitCost = NaN
                  /\ ledger[k].ProfitLoss = NaN /\ ledger[k].EndingBalance = NaN
    /\ (ledger # <<>> /\ IsEntry(ledger[Len(ledger)])) => bt.in_trade

\* an entry row whose close meets the exit condition of its own position,
\* the exit on the next row, and the same for the other direction
C35_Witness ==
    /\ \E e \in 1..(Len(ledger) - 1) :
          /\ IsEntry(ledger[e]) /\ ledger[e].LongShort = "Long"
          /\ ledger[e].close * 10 >= ledger[e].L_PTPrice[1]
          /\ IsExit(ledger[e + 1])
    /\ \E e \in 1..(Len(ledger) - 1) :
          /\ IsEntry(ledger[e]) /\ ledger[e].LongShort = "Short"
          /\ ledger[e].close * 10 <= ledger[e].S_PTPrice[1]
          /\ IsExit(ledger[e + 1])
\* the exit rows before row k
ExitsBefore(k) == { x \in 1..(k - 1) : IsExit(ledger[x]) }

\* the balance when row k begins: the EndingBalance of the last exit row
\* before it, the configured starting balance if there is none
LedgerBalance(k) ==
    IF ExitsBefore(k) = {} THEN cfg.STARTING_BALANCE
    ELSE LET x == CHOOSE y \in ExitsBefore(k) : \A z \in ExitsBefore(k) : z <= y
         IN  ledger[x].EndingBalance[1]

\* C36: every entry row has as StartingBalance the configured starting
\* balance if no trade has closed before it and else the EndingBalance of
\* the last exit row before it, and the running balance of the loop is that
\* same value after every row, so that it moves on exit rows only.
C36_BalanceChain ==
    /\ \A k \in 1..Len(ledger) :
           IsEntry(ledger[k]) => ledger[k].StartingBalance = <<LedgerBalance(k)>>
    /\ bt.pc = "running" => bt.current_balance = LedgerBalance(Len(ledger) + 1)

\* a second trade opened with the balance a losing first trade left, with
\* a flat row between them
C36_Witness ==
    \E k \in 4..Len(ledger) :
        /\ IsEntry(ledger[k]) /\ ledger[k - 1].InTrade = 0 /\ IsExit(ledger[k - 2])
        /\ ledger[k - 2].EndingBalance[1] < cfg.STARTING_BALANCE
        /\ ledger[k].StartingBalance = ledger[k - 2].EndingBalance
\* C37: with leverage 1 and a starting balance above 0, every entry row
\* has EntryCost equal to the balance at entry, every exit row has
\* EndingBalance equal to its ExitCost to within one hundredth, and the
\* running balance and every EndingBalance are never negative.
C37_BalanceNeverNegative ==
    (cfg.LEVERAGE = 1 /\ cfg.STARTING_BALANCE > 0) =>
        /\ \A k \in 1..Len(ledger) :
               /\ IsEntry(ledger[k]) =>
                      /\ ledger[k].EntryCost = ledger[k].StartingBalance
                      /\ ledger[k].EntryCost = <<LedgerBalance(k)>>
               /\ IsExit(ledger[k]) =>
                      /\ Abs(ledger[k].EndingBalance[1] - ledger[k].ExitCost[1]) <= 1
                      /\ ledger[k].EndingBalance[1] >= 0
               /\ ledger[k].close > 0
        /\ bt.pc = "running" => bt.current_balance >= 0

\* with leverage 1, a Short closed at a loss and after it a Long closed at
\* a loss
C37_Witness ==
    /\ cfg.LEVERAGE = 1 /\ cfg.STARTING_BALANCE > 0
    /\ \E i \in 1..Len(ledger) : \E j \in (i + 1)..Len(ledger) :
          /\ IsExit(ledger[i]) /\ ledger[i].LongShort = "Short" /\ ledger[i].ProfitLoss[1] < 0
          /\ IsExit(ledger[j]) /\ ledger[j].LongShort = "Long" /\ ledger[j].ProfitLoss[1] < 0

\* with leverage 2 a trade leaves a negative balance
C37_LeverageTwoNegative ==
    cfg.LEVERAGE = 2 /\ bt.pc = "running" /\ bt.current_balance < 0
(***************************************************************************)
(* The live analysis over a feed long enough for a signal to be stored:    *)
(* the feed inserts a candle once the analysis has caught up and may       *)
(* update the candle of the current interval.                              *)
(***************************************************************************)
MaxSignalBars == 5

LiveFeedLong ==
    /\ IF live = <<>> THEN TRUE ELSE lpd = live[Len(live)].t
    /\ LiveAppend(MaxSignalBars)

LiveSignalConfigs == { [BaseCfg EXCEPT !.shapes = { <<1, 1, 1>>, <<2, 1, 2>> }] }

InitLiveSignals == cfg \in LiveSignalConfigs /\ Idle

NextLiveSignals == LiveFeedLong \/ LiveRevise \/ LivePoll

SpecLiveSignals == InitLiveSignals /\ [][NextLiveSignals]_vars

\* the row of the store at DateTime t keeps the flags and signals that r has
KeepsOnes(st, r) ==
    /\ HasRow(st, r.t)
    /\ r.IsSwingHigh => RowAt(st, r.t).IsSwingHigh
    /\ r.IsSwingLow => RowAt(st, r.t).IsSwingLow
    /\ r.BuySignal = 1 => RowAt(st, r.t).BuySignal = 1
    /\ r.SellSignal = 1 => RowAt(st, r.t).SellSignal = 1

\* C38: every step leaves each stored row in the store with every
\* IsSwingHigh, IsSwingLow, BuySignal and SellSignal that was 1 still 1.
C38_StoredOnesStay ==
    [][\A i \in 1..Len(store) : KeepsOnes(store', store[i])]_vars

\* the stored latest row has a swing flag that the analysis of the window
\* with the updated candle, already stored, no longer computes
C38_Witness ==
    /\ lpd # 0
    /\ HasRow(store, lpd)
    /\ live[Len(live)].t = lpd
    /\ RowAt(store, lpd).high = live[Len(live)].high
    /\ RowAt(store, lpd).low = live[Len(live)].low
    /\ RowAt(store, lpd).close = live[Len(live)].close
    /\ LET p == process_new_data(Window(live, store, lpd, cfg), cfg)
       IN  \/ RowAt(store, lpd).IsSwingHigh /\ ~p[Len(p)].IsSwingHigh
           \/ RowAt(store, lpd).IsSwingLow /\ ~p[Len(p)].IsSwingLow

\* the stored latest row has a signal that the analysis of the window with
\* the updated candle, already stored, no longer computes
C38_SignalKept ==
    /\ lpd # 0
    /\ HasRow(store, lpd)
    /\ live[Len(live)].t = lpd
    /\ RowAt(store, lpd).high = live[Len(live)].high
    /\ RowAt(store, lpd).low = live[Len(live)].low
    /\ RowAt(store, lpd).close = live[Len(live)].close
    /\ LET p == process_new_data(Window(live, store, lpd, cfg), cfg)
       IN  \/ RowAt(store, lpd).BuySignal = 1 /\ p[Len(p)].BuySignal = 0
           \/ RowAt(store, lpd).SellSignal = 1 /\ p[Len(p)].SellSignal = 0
\* the DateTimes of the rows of a table
TimesOf(st) == { st[i].t : i \in 1..Len(st) }

\* C39: last_processed_datetime never decreases; a step that changes it
\* has committed at least one row that the table did not hold, and leaves
\* it at the DateTime of the newest row of the table, which is one of the
\* rows written by the step.
C39_LpdMonotone ==
    [][ /\ lpd' >= lpd
        /\ lpd' # lpd =>
               /\ TimesOf(store') \ TimesOf(store) # {}
               /\ lpd' \in TimesOf(store') \ TimesOf(store)
               /\ \A t \in TimesOf(store') : t <= lpd' ]_vars

\* last_processed_datetime has advanced to the second stored row or later,
\* and the poll just made failed with a new candle waiting, leaving it there
C39_Witness ==
    /\ Len(store) >= 2
    /\ lpd = store[Len(store)].t
    /\ upsert.fail # 0
    /\ \E k \in 1..Len(live) : live[k].t > lpd
(***************************************************************************)
(* The batch runner (Crypto_010_DEV_00_00_Batch.py, and the same loop in   *)
(* Crypto_001_DEV_00_00_Batch.py): run_batch reads the PENDING rows of the *)
(* log table and, for each, sets RUNNING, runs the scripts of SCRIPT_LIST  *)
(* and sets the final status.  runner.log is the Status column by          *)
(* AnalysisRunID.                                                          *)
(***************************************************************************)
MaxConfigs == 2

SCRIPT_LIST ==
    << "Analysis", "Backtest", "Entry_Exit_Order", "Results_Analysis",
       "Portfolio_Balance", "Portfolio_Summary" >>

\* what running one script gives: no file at the path, exit status 0, or
\* CalledProcessError, TimeoutExpired or another exception
ScriptOutcomes == { "missing", "ok", "failed" }

\* SELECT AnalysisRunID ... WHERE Status = 'PENDING' ORDER BY AnalysisRunID
PendingRuns(log) == SortedTs({ id \in DOMAIN log : log[id] = "PENDING" })

\* UPDATE ... SET Status = ? WHERE AnalysisRunID = ? and commit; an
\* exception of the two is logged and not raised
update_log_status(log, id, status, raised) ==
    IF raised THEN log ELSE [log EXCEPT ![id] = status]

\* config_success after one script
ScriptResult(config_success, outcome) == config_success /\ outcome = "ok"

\* A mutant of ScriptsDone: the loop over the scripts stops at a failure.
ScriptsDoneAtFailure(attempted, config_success) ==
    Len(attempted) = Len(SCRIPT_LIST) \/ ~config_success

\* the loop over SCRIPT_LIST has no break
ScriptsDone(attempted, config_success) == Len(attempted) = Len(SCRIPT_LIST)

final_status(config_success) == IF config_success THEN "COMPLETED" ELSE "ERROR"

\* the configuration the loop is at
CurrentRun(r) == r.pending_runs[r.idx]

\* run_batch counts and fetches the pending configurations
FetchPending ==
    /\ runner.pc = "start"
    /\ LET pending == PendingRuns(runner.log)
       IN  runner' = IF pending = <<>>
                     THEN [runner EXCEPT !.pc = "done"]
                     ELSE [runner EXCEPT !.pc = "config", !.pending_runs = pending, !.idx = 1]
    /\ UNCHANGED <<cfg, fetch, analysis, live, store, lpd, upsert, source, bt, ledger>>

\* the loop takes the next configuration and sets it RUNNING
SetRunning ==
    /\ runner.pc = "config"
    /\ \E raised \in BOOLEAN :
          runner' = [runner EXCEPT
                        !.log = update_log_status(@, CurrentRun(runner), "RUNNING", raised),
                        !.update_raised = @ \/ raised,
                        !.attempted = <<>>, !.config_success = TRUE, !.pc = "scripts"]
    /\ UNCHANGED <<cfg, fetch, analysis, live, store, lpd, upsert, source, bt, ledger>>

\* the next script of SCRIPT_LIST is looked up and run
RunScript ==
    /\ runner.pc = "scripts"
    /\ ~ScriptsDone(runner.attempted, runner.config_success)
    /\ \E outcome \in ScriptOutcomes :
          runner' = [runner EXCEPT
                        !.attempted = Append(@, outcome),
                        !.config_success = ScriptResult(@, outcome)]
    /\ UNCHANGED <<cfg, fetch, analysis, live, store, lpd, upsert, source, bt, ledger>>

\* the final status of the configuration is written
SetFinal ==
    /\ runner.pc = "scripts"
    /\ ScriptsDone(runner.attempted, runner.config_success)
    /\ \E raised \in BOOLEAN :
          runner' = [runner EXCEPT
                        !.log = update_log_status(@, CurrentRun(runner),
                                                  final_status(runner.config_success), raised),
                        !.update_raised = @ \/ raised,
                        !.idx = @ + 1,
                        !.pc = IF runner.idx = Len(runner.pending_runs)
                               THEN "done" ELSE "config"]
    /\ UNCHANGED <<cfg, fetch, analysis, live, store, lpd, upsert, source, bt, ledger>>

\* the log table holds PENDING configurations and finished ones
InitRunner ==
    /\ cfg = BaseCfg
    /\ fetch = <<>> /\ analysis = NoAnalysis
    /\ live = <<>> /\ store = <<>> /\ lpd = 0 /\ upsert = NoUpsert
    /\ source = <<>> /\ bt = NoBt /\ ledger = <<>>
    /\ \E log \in [1..MaxConfigs -> {"PENDING", "COMPLETED"}] :
          runner = [pc |-> "start", log |-> log, pending_runs |-> <<>>, idx |-> 0,
                    attempted |-> <<>>, config_success |-> TRUE, update_raised |-> FALSE]

NextRunner == FetchPending \/ SetRunning \/ RunScript \/ SetFinal

SpecRunner == InitRunner /\ [][NextRunner]_vars

\* what C40 says of one step of run_batch
RunnerStep(old, new) ==
    /\ (old.pc = "start" /\ new.pc = "config") =>
           \A id \in DOMAIN old.log :
               old.log[id] = "PENDING" =>
                   \E i \in 1..Len(new.pending_runs) : new.pending_runs[i] = id
    /\ (old.pc = "config" /\ new.pc = "scripts") => new.log[CurrentRun(old)] = "RUNNING"
    /\ (old.pc = "scripts" /\ new.pc # "scripts") =>
           /\ Len(old.attempted) = Len(SCRIPT_LIST)
           /\ new.log[CurrentRun(old)] =
                  (IF \A i \in 1..Len(old.attempted) : old.attempted[i] = "ok"
                   THEN "COMPLETED" ELSE "ERROR")
    /\ new.pc = "done" =>
           \A i \in 1..Len(new.pending_runs) :
               new.log[new.pending_runs[i]] \in {"COMPLETED", "ERROR"}

\* C40: every PENDING configuration is picked up and set RUNNING, every
\* script of the list is attempted whatever the earlier ones gave, the
\* final status is COMPLETED exactly when every script existed and exited
\* with 0 and ERROR otherwise, and no configuration picked up is left
\* RUNNING when the loop has finished.
C40_RunnerStatuses ==
    [][RunnerStep(runner, runner')]_vars

\* the same while no status update has raised
C40_WhenUpdatesSucceed ==
    [][~runner'.update_raised => RunnerStep(runner, runner')]_vars

\* the loop has finished, no update raised, and of two configurations one
\* is COMPLETED and one, whose first script failed, is ERROR
C40_BothOutcomes ==
    /\ runner.pc = "done" /\ ~runner.update_raised
    /\ Len(runner.pending_runs) = 2
    /\ runner.log[1] = "COMPLETED" /\ runner.log[2] = "ERROR"
    /\ runner.attempted[1] = "failed" /\ runner.attempted[Len(SCRIPT_LIST)] = "ok"

\* the loop has finished and a configuration it picked up is RUNNING
C40_LeftRunning ==
    /\ runner.pc = "done"
    /\ \E i \in 1..Len(runner.pending_runs) : runner.log[runner.pending_runs[i]] = "RUNNING"
====
